---- MODULE Spec2Model ----
(***************************************************************************)
(* Job admission and processing pipeline of the telegram-whisper-bot.      *)
(*                                                                         *)
(* Two programs live in the repository and are modelled side by side:      *)
(*   - BotCore (src/bot_core.py): the counter map, the queue, admission    *)
(*     (queue_audio_job) and the pipeline (process_audio_job);             *)
(*   - main.py: the handler handle_audio and the worker loop, with their   *)
(*     own module-level queue.                                             *)
(*                                                                         *)
(* Everything runs on one asyncio event loop: a coroutine runs without     *)
(* interruption from one suspending await to the next, so an action of the *)
(* model is the code between two suspension points.  An await of a         *)
(* transport call (send / edit / delete / fetch) and of the offloaded      *)
(* transcribe call suspends; asyncio.Queue.put on a queue that is not full *)
(* and Queue.get on a queue that is not empty do not.                      *)
(***************************************************************************)
EXTENDS Integers, Sequences, FiniteSets, TLC

\* ------------------------------------------------------------------------
\* Configuration and bounds
\* ------------------------------------------------------------------------

\* BotCore(max_queue_size=...): the capacity the admission check compares to.
max_queue_size == 2

\* BotCore(max_jobs_per_user_in_queue=2): the per-user ceiling K.
max_jobs_per_user_in_queue == 2

\* BotCore(max_file_size=...), scaled: sizes are max_file_size (allowed) and
\* max_file_size + 1 (oversize).
max_file_size == 2

\* BotCore(num_workers=2).
num_workers == 2

\* asyncio.Queue() is built without a maxsize: maxsize = 0, "infinite".
queue_maxsize == 0

\* Number of distinct chats submitting audio.
NumUsers == 2

\* Number of queue_audio_job calls made in one run.
MaxCalls == 3

\* Largest count the direct increment_user_queue_count calls drive a chat to.
MaxCount == 3

\* main.py: MAX_QUEUE_SIZE (100 in the source), scaled.
MAX_QUEUE_SIZE == 1

\* main.py: MAX_FILE_SIZE_MB (20 MiB in the source), scaled: sizes are
\* MAX_FILE_SIZE_MB (allowed) and MAX_FILE_SIZE_MB + 1 (oversize).
MAX_FILE_SIZE_MB == 2

\* main.py: NUM_WORKERS, default "2".
NUM_WORKERS == 2

\* Number of updates delivered to handle_audio in one run.
MaxUpdates == 3

\* Config.TELEGRAM_MESSAGE_LIMIT
TELEGRAM_MESSAGE_LIMIT == 4096

\* len("Transcription:\n\n")
HeaderLen == 16

\* Config.AUDIO_SAMPLE_RATE
AUDIO_SAMPLE_RATE == 16000

\* The longest transcribed texts tried fill this many messages (and one more
\* character).
MaxChunks == 2

Users == 1..NumUsers
Workers == 1..num_workers
FileSizes == {max_file_size, max_file_size + 1}
MainWorkers == 1..NUM_WORKERS
MainFileSizes == {MAX_FILE_SIZE_MB, MAX_FILE_SIZE_MB + 1}
Updates == 1..MaxUpdates

\* Lengths (and blankness) of the texts the model's transcribe may return: an
\* empty text, a one-chunk text and a two-chunk text.
ChunkBody == TELEGRAM_MESSAGE_LIMIT - HeaderLen
Transcriptions ==
    { [len |-> 0, blank |-> TRUE],
      [len |-> 1, blank |-> FALSE],
      [len |-> ChunkBody + 1, blank |-> FALSE] }

\* Sample counts whisper.load_audio may return: none, one, just under 0.1 s
\* and exactly 0.1 s.
SampleCounts == {0, 1, 1599, 1600}

VARIABLES
    processing_queue,   \* BotCore.processing_queue: sequence of Job
    user_queue_count,   \* BotCore.user_queue_count: the defaultdict(int), a map
    stats,              \* history: per chat, how its queue_audio_job calls ended
    last_call,          \* history: the last queue_audio_job call and what it returned
    worker,             \* per worker: the await it is suspended on, its job, and
                        \* what its last process_audio_job call returned
    last_op,            \* history: the last direct call of a counter method
    main_queue,         \* main.py: processing_queue (module level)
    models,             \* main.py: models, a map worker name -> model handle
    handler,            \* main.py: per inbound update, where handle_audio stands
    main_worker,        \* main.py: per worker task, the await it is suspended on
    main_log,           \* history: the message ids put, got and cleaned up
    run,                \* per worker: one process_audio_job call, with every
                        \* call it has made on the transport and on whisper
    scratch,            \* the temporary directories that exist
    applied             \* the last text function applied, its argument and result

core_vars == <<processing_queue, user_queue_count, stats, last_call, worker>>

main_vars == <<main_queue, models, handler, main_worker, main_log>>

job_vars == <<run, scratch, applied>>

vars == <<processing_queue, user_queue_count, stats, last_call, worker, last_op,
          main_queue, models, handler, main_worker, main_log, run, scratch,
          applied>>

\* ------------------------------------------------------------------------
\* The counter map: a defaultdict(int).  Reading a missing key returns 0 and
\* inserts the key with value 0 (defaultdict.__missing__).
\* ------------------------------------------------------------------------

\* The value d[k] evaluates to.
DictRead(d, k) == IF k \in DOMAIN d THEN d[k] ELSE 0

\* The map after d[k] has been evaluated.
DictTouch(d, k) == IF k \in DOMAIN d THEN d ELSE d @@ (k :> 0)

\* del d[k]
DictDel(d, k) == [x \in (DOMAIN d) \ {k} |-> d[x]]

\* Each method returns [ret |-> returned value, map |-> the map afterwards].

\* Mutants of can_user_submit_job: the comparison off by one, and no comparison.
can_user_submit_job_off_by_one(d, chat_id) ==
    [ret |-> DictRead(d, chat_id) <= max_jobs_per_user_in_queue,
     map |-> DictTouch(d, chat_id)]

can_user_submit_job_unchecked(d, chat_id) ==
    [ret |-> TRUE, map |-> DictTouch(d, chat_id)]

\* Mutant of can_user_submit_job: the ceiling is applied to every chat's count,
\* so one chat at the ceiling closes the gate for all.
can_user_submit_job_any_chat(d, chat_id) ==
    [ret |-> \A k \in DOMAIN DictTouch(d, chat_id) :
                 DictTouch(d, chat_id)[k] < max_jobs_per_user_in_queue,
     map |-> DictTouch(d, chat_id)]

can_user_submit_job(d, chat_id) ==
    [ret |-> DictRead(d, chat_id) < max_jobs_per_user_in_queue,
     map |-> DictTouch(d, chat_id)]

increment_user_queue_count(d, chat_id) ==
    LET m == [DictTouch(d, chat_id) EXCEPT ![chat_id] = @ + 1]
    IN  [ret |-> m[chat_id], map |-> m]

\* Mutants of decrement_user_queue_count: the zero entry is kept, and the
\* decrement is not floored at 0.
decrement_user_queue_count_keeps_entry(d, chat_id) ==
    LET t == DictTouch(d, chat_id)
        m == IF t[chat_id] > 0 THEN [t EXCEPT ![chat_id] = @ - 1] ELSE t
    IN  [ret |-> m[chat_id], map |-> m]

decrement_user_queue_count_no_floor(d, chat_id) ==
    LET m == [DictTouch(d, chat_id) EXCEPT ![chat_id] = @ - 1]
        new_count == m[chat_id]
    IN  [ret |-> new_count,
         map |-> IF new_count = 0 THEN DictDel(m, chat_id) ELSE m]

decrement_user_queue_count(d, chat_id) ==
    LET t == DictTouch(d, chat_id)
        m == IF t[chat_id] > 0 THEN [t EXCEPT ![chat_id] = @ - 1] ELSE t
        new_count == m[chat_id]
    IN  [ret |-> new_count,
         map |-> IF new_count = 0 THEN DictDel(m, chat_id) ELSE m]

get_user_queue_count(d, chat_id) ==
    [ret |-> DictRead(d, chat_id), map |-> DictTouch(d, chat_id)]

\* ------------------------------------------------------------------------
\* The queue: asyncio.Queue
\* ------------------------------------------------------------------------

\* Queue.full(): with maxsize <= 0 the queue is never full.
QueueFull(q) == IF queue_maxsize <= 0 THEN FALSE ELSE Len(q) >= queue_maxsize

\* Mutant of QueuePut: the job is put at the head.
QueuePut_at_head(q, job) == <<job>> \o q

\* Queue.put / put_nowait: append at the tail.
QueuePut(q, job) == Append(q, job)

\* Mutants of QueueGet: the newest job is taken, and the job taken stays in
\* the queue.
QueueGet_newest(q) == [item |-> q[Len(q)], rest |-> SubSeq(q, 1, Len(q) - 1)]

QueueGet_keeps_item(q) == [item |-> Head(q), rest |-> q]

\* Queue.get / get_nowait on a queue that is not empty: popleft.
QueueGet(q) == [item |-> Head(q), rest |-> Tail(q)]

\* Mutant of is_queue_full: full only past the capacity.
is_queue_full_past_capacity(q) == Len(q) > max_queue_size

is_queue_full(q) == Len(q) >= max_queue_size

get_queue_position(q) == Len(q)

\* ------------------------------------------------------------------------
\* Jobs and worker state
\* ------------------------------------------------------------------------

\* message_id identifies the submission: the n-th call carries message n.
Job(chat_id, message_id, file_size) ==
    [chat_id |-> chat_id, message_id |-> message_id, file_size |-> file_size]

NoJob == [chat_id |-> 0, message_id |-> 0, file_size |-> 0]

\* A worker record: pc is the await the worker is suspended on; job, n (the
\* sample count len(audio), -1 before the audio is decoded), len (length of
\* the transcribed text) and i (offset of the chunk being sent) are locals of
\* process_audio_job.  An idle worker keeps what its last process_audio_job
\* call returned (result) and how many complete_job calls that call made (rel).
Running(pc, job) ==
    [pc |-> pc, job |-> job, n |-> -1, len |-> 0, i |-> 0,
     result |-> "none", rel |-> 0]

Returned(result, rel) ==
    [pc |-> "idle", job |-> NoJob, n |-> -1, len |-> 0, i |-> 0,
     result |-> result, rel |-> rel]

Idle == Returned("none", 0)

NoMsg == [kind |-> "none", limit |-> 0, current |-> 0]

NoStats == [ok |-> 0, user_limit |-> 0, queue_full |-> 0, released |-> 0]

\* Number of queue_audio_job calls made so far.
RECURSIVE SumCalls(_, _)
SumCalls(st, us) ==
    IF us = {} THEN 0
    ELSE LET u == CHOOSE x \in us : TRUE
         IN  st[u].ok + st[u].user_limit + st[u].queue_full + SumCalls(st, us \ {u})

NumCalls == SumCalls(stats, Users)

NoOp == [op |-> "none", chat_id |-> 0, ret |-> 0, before |-> <<>>]

\* main.py: a handle_audio invocation (pc: the await it is suspended on) with
\* its locals audio.file_size and queue_size.
Handler(pc, file_size, queue_size) ==
    [pc |-> pc, file_size |-> file_size, queue_size |-> queue_size]

\* main.py: Job, as far as the worker reads it.
MainJob(message_id, file_size) == [message_id |-> message_id, file_size |-> file_size]

NoMainJob == MainJob(0, 0)

\* main.py: a worker task (pc: the await it is suspended on) with its locals
\* job, model (a handle, 0 before the model is loaded), and the length of the
\* transcription and the offset of the chunk being sent.
MainWorker(pc, job, model) ==
    [pc |-> pc, job |-> job, model |-> model, len |-> 0, i |-> 0]

\* The message ids put into and got from main.py's queue, in order, and the
\* ids whose status message the worker has tried to delete, one entry per
\* delete_message call.
NoLog == [put |-> <<>>, got |-> <<>>, deleted |-> <<>>]

\* ------------------------------------------------------------------------
\* Texts.  A str is a sequence of one-character strings, so that len, slicing,
\* "in", lower() and strip() are computed on the characters.
\* ------------------------------------------------------------------------

UpperCase == <<"A", "B", "C", "D", "E", "F", "G", "H", "I", "J", "K", "L", "M",
               "N", "O", "P", "Q", "R", "S", "T", "U", "V", "W", "X", "Y", "Z">>

LowerCase == <<"a", "b", "c", "d", "e", "f", "g", "h", "i", "j", "k", "l", "m",
               "n", "o", "p", "q", "r", "s", "t", "u", "v", "w", "x", "y", "z">>

Whitespace == {" ", "\n", "\t", "\r"}

\* str.lower()
lower(s) ==
    [k \in 1..Len(s) |->
        IF \E c \in 1..26 : UpperCase[c] = s[k]
        THEN LowerCase[CHOOSE c \in 1..26 : UpperCase[c] = s[k]]
        ELSE s[k]]

\* sub in s
Contains(sub, s) ==
    \E k \in 0..(Len(s) - Len(sub)) : SubSeq(s, k + 1, k + Len(sub)) = sub

\* str.strip(): leading and trailing whitespace removed.
RECURSIVE lstrip(_)
lstrip(s) == IF s # <<>> /\ s[1] \in Whitespace THEN lstrip(Tail(s)) ELSE s

RECURSIVE rstrip(_)
rstrip(s) ==
    IF s # <<>> /\ s[Len(s)] \in Whitespace
    THEN rstrip(SubSeq(s, 1, Len(s) - 1)) ELSE s

strip(s) == rstrip(lstrip(s))

\* range(start, stop, step), step > 0
range(start, stop, step) ==
    IF stop <= start THEN <<>>
    ELSE [k \in 1..((stop - start + step - 1) \div step) |-> start + (k - 1) * step]

\* Mutant of slice: the end index is included.
slice_inclusive(s, a, b) == SubSeq(s, a + 1, IF b + 1 < Len(s) THEN b + 1 ELSE Len(s))

\* s[a : b], 0 <= a
slice(s, a, b) == SubSeq(s, a + 1, IF b < Len(s) THEN b ELSE Len(s))

\* A message text: a literal, or (f-string) computed characters.
Text(literal) == [fixed |-> literal, body |-> <<>>]

Chars(body) == [fixed |-> "", body |-> body]

\* header = "Transcription:\n\n"
header ==
    <<"T", "r", "a", "n", "s", "c", "r", "i", "p", "t", "i", "o", "n", ":",
      "\n", "\n">>

\* The words _send_error_message and main.py's worker look for in an
\* exception text, other words an exception text holds, and
\* Phrase.TensorReshapeError, the error whisper raises on audio without samples.
Phrase ==
    [ download |->
          <<"d", "o", "w", "n", "l", "o", "a", "d">>,
      Download |->
          <<"D", "o", "w", "n", "l", "o", "a", "d">>,
      file |->
          <<"f", "i", "l", "e">>,
      FILE |->
          <<"F", "I", "L", "E">>,
      profile |->
          <<"p", "r", "o", "f", "i", "l", "e">>,
      cannot_reshape_tensor |->
          <<"c", "a", "n", "n", "o", "t", " ", "r", "e", "s", "h", "a", "p", "e", " ", "t", "e", "n", "s", "o", "r">>,
      tensor_of_0_elements |->
          <<"t", "e", "n", "s", "o", "r", " ", "o", "f", " ", "0", " ", "e", "l", "e", "m", "e", "n", "t", "s">>,
      Tensor |->
          <<"T", "e", "n", "s", "o", "r">>,
      transcribe |->
          <<"t", "r", "a", "n", "s", "c", "r", "i", "b", "e">>,
      Whisper |->
          <<"W", "h", "i", "s", "p", "e", "r">>,
      whisper |->
          <<"w", "h", "i", "s", "p", "e", "r">>,
      timed_out |->
          <<"t", "i", "m", "e", "d", " ", "o", "u", "t">>,
      TensorReshapeError |->
          <<"c", "a", "n", "n", "o", "t", " ", "r", "e", "s", "h", "a", "p", "e", " ", "t", "e", "n", "s", "o", "r", " ", "o", "f", " ", "0", " ", "e", "l", "e", "m", "e", "n", "t", "s", " ", "i", "n", "t", "o", " ", "s", "h", "a", "p", "e", " ", "[", "1", ",", " ", "0", ",", " ", "8", ",", " ", "-", "1", "]">> ]

\* Mutant of send_transcription_result: the loop steps by the whole limit.
send_transcription_result_full_step(transcription) ==
    LET max_length == TELEGRAM_MESSAGE_LIMIT
        starts == range(0, Len(transcription), max_length)
    IN  IF strip(transcription) = <<>>
        THEN << Text("The audio contained no detectable speech.") >>
        ELSE [k \in 1..Len(starts) |->
                 Chars(header \o slice(transcription, starts[k],
                                       starts[k] + max_length - Len(header)))]

\* Mutant of send_transcription_result: a blank text is sent like any other.
send_transcription_result_no_blank_check(transcription) ==
    LET max_length == TELEGRAM_MESSAGE_LIMIT
        starts == range(0, Len(transcription), max_length - Len(header))
    IN  IF transcription = <<>> THEN << Chars(header) >>
        ELSE [k \in 1..Len(starts) |->
                 Chars(header \o slice(transcription, starts[k],
                                       starts[k] + max_length - Len(header)))]

\* BotCore._send_transcription_result (and the same lines of main.py's
\* worker): the texts of the send_message calls it makes, in order.
send_transcription_result(transcription) ==
    LET max_length == TELEGRAM_MESSAGE_LIMIT
        starts == range(0, Len(transcription), max_length - Len(header))
    IN  IF strip(transcription) = <<>>
        THEN << Text("The audio contained no detectable speech.") >>
        ELSE [k \in 1..Len(starts) |->
                 Chars(header \o slice(transcription, starts[k],
                                       starts[k] + max_length - Len(header)))]

\* The error_msg texts of _send_error_message.
ErrorMsg ==
    [ download_failed |->
          Text("Sorry, failed to download your file. Please try again."),
      cannot_be_processed |->
          Text("Sorry, this audio file cannot be processed. It may be too short, corrupted, or in an unsupported format."),
      transcribe_failed |->
          Text("Sorry, failed to transcribe your audio. The file may be corrupted or in an unsupported format."),
      generic |->
          Text("Sorry, an error occurred while processing your file.") ]

\* Mutant of send_error_message: the error text is matched as it is.
send_error_message_case_sensitive(error) ==
    LET error_str == error IN
    IF Contains(Phrase.download, error_str) \/ Contains(Phrase.file, error_str)
    THEN ErrorMsg.download_failed
    ELSE IF \/ Contains(Phrase.cannot_reshape_tensor, error_str)
            \/ Contains(Phrase.tensor_of_0_elements, error_str)
    THEN ErrorMsg.cannot_be_processed
    ELSE IF Contains(Phrase.transcribe, error_str) \/ Contains(Phrase.whisper, error_str)
    THEN ErrorMsg.transcribe_failed
    ELSE ErrorMsg.generic

\* Mutant of send_error_message: the generic message quotes the error.
send_error_message_verbatim(error) ==
    LET error_str == lower(error) IN
    IF Contains(Phrase.download, error_str) \/ Contains(Phrase.file, error_str)
    THEN ErrorMsg.download_failed
    ELSE IF \/ Contains(Phrase.cannot_reshape_tensor, error_str)
            \/ Contains(Phrase.tensor_of_0_elements, error_str)
    THEN ErrorMsg.cannot_be_processed
    ELSE IF Contains(Phrase.transcribe, error_str) \/ Contains(Phrase.whisper, error_str)
    THEN ErrorMsg.transcribe_failed
    ELSE [fixed |-> "Sorry, an error occurred while processing your file: ",
          body |-> error]

\* BotCore._send_error_message: the text of the send_message call it makes
\* for an exception whose str() is error.
send_error_message(error) ==
    LET error_str == lower(error) IN
    IF Contains(Phrase.download, error_str) \/ Contains(Phrase.file, error_str)
    THEN ErrorMsg.download_failed
    ELSE IF \/ Contains(Phrase.cannot_reshape_tensor, error_str)
            \/ Contains(Phrase.tensor_of_0_elements, error_str)
    THEN ErrorMsg.cannot_be_processed
    ELSE IF Contains(Phrase.transcribe, error_str) \/ Contains(Phrase.whisper, error_str)
    THEN ErrorMsg.transcribe_failed
    ELSE ErrorMsg.generic

MainTranscribeFailedMsg ==
    Text("Sorry, failed to transcribe your audio. The file may be corrupted.")

\* main.py, worker, except Exception: the text of the send_message call.
main_error_msg(e) ==
    IF Contains(Phrase.download, lower(e)) \/ Contains(Phrase.file, lower(e))
    THEN ErrorMsg.download_failed
    ELSE IF Contains(Phrase.transcribe, lower(e)) \/ Contains(Phrase.whisper, lower(e))
    THEN MainTranscribeFailedMsg
    ELSE ErrorMsg.generic

\* The transcribed texts tried: lengths around every multiple of the chunk
\* size up to MaxChunks chunks, and 9000 characters; letters with lead
\* leading and trail trailing blanks, and texts of blanks only.
TextOf(length, lead, trail) ==
    [k \in 1..length |->
        IF k <= lead \/ k > length - trail THEN " " ELSE LowerCase[(k % 26) + 1]]

Texts ==
    LET TextLengths ==
            { c * (TELEGRAM_MESSAGE_LIMIT - Len(header)) + d :
                c \in 0..MaxChunks, d \in {-1, 0, 1} } \cup {2, 3, 9000}
    IN  { TextOf(length, lead, trail) :
            length \in {n \in TextLengths : n >= 0}, lead \in 0..1, trail \in 0..1 }
          \cup { <<"\n">>, <<" ", "\t">>, <<" ", "\r", "\n">> }

\* The exception texts tried: the pieces alone and in pairs.
ErrorTexts ==
    LET Fragments ==
            { Phrase.download, Phrase.Download, Phrase.file, Phrase.FILE,
              Phrase.profile, Phrase.cannot_reshape_tensor,
              Phrase.tensor_of_0_elements, Phrase.Tensor, Phrase.transcribe,
              Phrase.whisper, Phrase.Whisper, Phrase.timed_out }
    IN  Fragments \cup { a \o <<":", " ">> \o b : a, b \in Fragments }
                  \cup { <<>>, Phrase.TensorReshapeError }

NoText == Text("")

\* The locals of a process_audio_job call: pc (the await it is suspended
\* on), job, temp_dir (0: none made), n = len(audio) (-1: not decoded),
\* transcription, the number k of messages _send_transcription_result has
\* sent, the error message chosen; and calls, every call made so far.  After the return: result and rel, the number of complete_job calls.
RunOf(pc, job) ==
    [pc |-> pc, job |-> job, temp_dir |-> 0, n |-> -1, transcription |-> <<>>,
     k |-> 0, error_msg |-> NoText, calls |-> <<>>,
     result |-> "none", rel |-> 0]

NoScratch == [made |-> 0, live |-> {}]

\* No process_audio_job call has been made.
NoRun == RunOf("idle", NoJob)

NoApplied == [fn |-> "none", arg |-> <<>>, out |-> <<>>]

Init ==
    /\ processing_queue = <<>>
    /\ user_queue_count = <<>>
    /\ stats = [u \in Users |-> NoStats]
    /\ last_call = [chat_id |-> 0, ok |-> FALSE, msg |-> NoMsg]
    /\ worker = [w \in Workers |-> Idle]
    /\ last_op = NoOp
    /\ main_queue = <<>>
    /\ models = <<>>
    /\ handler = [h \in Updates |-> Handler("new", 0, 0)]
    /\ main_worker = [w \in MainWorkers |-> MainWorker("start", NoMainJob, 0)]
    /\ main_log = NoLog
    /\ run = [w \in Workers |-> NoRun]
    /\ scratch = NoScratch
    /\ applied = NoApplied

\* ------------------------------------------------------------------------
\* BotCore.queue_audio_job: one step, since its only await (Queue.put on a
\* queue that is never full) does not suspend.
\* ------------------------------------------------------------------------

QueueFullMsg == [kind |-> "queue_full", limit |-> max_queue_size, current |-> 0]

UserLimitMsg(current_count) ==
    [kind |-> "user_limit", limit |-> max_jobs_per_user_in_queue,
     current |-> current_count]

\* What a queue_audio_job call returned: (success, error_message).
Call(chat_id, ok, msg) == [chat_id |-> chat_id, ok |-> ok, msg |-> msg]

Count(st, chat_id, kind) == [st EXCEPT ![chat_id][kind] = @ + 1]

\* Mutant of QueueAudioJob: the per-user gate is evaluated before the capacity
\* gate.
QueueAudioJob_user_gate_first(chat_id, file_size) ==
    /\ NumCalls < MaxCalls
    /\ UNCHANGED <<worker, last_op, main_vars, job_vars>>
    /\ LET can == can_user_submit_job(user_queue_count, chat_id) IN
       IF ~can.ret
       THEN LET cur == get_user_queue_count(can.map, chat_id) IN
            /\ last_call' = Call(chat_id, FALSE, UserLimitMsg(cur.ret))
            /\ stats' = Count(stats, chat_id, "user_limit")
            /\ user_queue_count' = cur.map
            /\ UNCHANGED processing_queue
       ELSE IF is_queue_full(processing_queue)
       THEN /\ last_call' = Call(chat_id, FALSE, QueueFullMsg)
            /\ stats' = Count(stats, chat_id, "queue_full")
            /\ user_queue_count' = can.map
            /\ UNCHANGED processing_queue
       ELSE LET inc == increment_user_queue_count(can.map, chat_id)
                job == Job(chat_id, NumCalls + 1, file_size)
            IN  /\ user_queue_count' = inc.map
                /\ processing_queue' = QueuePut(processing_queue, job)
                /\ last_call' = Call(chat_id, TRUE, NoMsg)
                /\ stats' = Count(stats, chat_id, "ok")

QueueAudioJob(chat_id, file_size) ==
    /\ NumCalls < MaxCalls
    /\ UNCHANGED <<worker, last_op, main_vars, job_vars>>
    /\ IF is_queue_full(processing_queue)
       THEN /\ last_call' = Call(chat_id, FALSE, QueueFullMsg)
            /\ stats' = Count(stats, chat_id, "queue_full")
            /\ UNCHANGED <<processing_queue, user_queue_count>>
       ELSE LET can == can_user_submit_job(user_queue_count, chat_id) IN
            IF ~can.ret
            THEN LET cur == get_user_queue_count(can.map, chat_id) IN
                 /\ last_call' = Call(chat_id, FALSE, UserLimitMsg(cur.ret))
                 /\ stats' = Count(stats, chat_id, "user_limit")
                 /\ user_queue_count' = cur.map
                 /\ UNCHANGED processing_queue
            ELSE LET inc == increment_user_queue_count(can.map, chat_id)
                     job == Job(chat_id, NumCalls + 1, file_size)
                 IN  /\ ~QueueFull(processing_queue)
                     /\ user_queue_count' = inc.map
                     /\ processing_queue' = QueuePut(processing_queue, job)
                     /\ last_call' = Call(chat_id, TRUE, NoMsg)
                     /\ stats' = Count(stats, chat_id, "ok")

\* ------------------------------------------------------------------------
\* BotCore.process_audio_job, one action per suspending await.  worker[w].pc
\* names the await the coroutine is suspended on; each action is that call
\* returning or raising, and the code that follows up to the next await.
\* ------------------------------------------------------------------------

\* BotCore.complete_job(job): release the slot of job.chat_id.
CompleteJob(w) ==
    /\ user_queue_count' =
           decrement_user_queue_count(user_queue_count, worker[w].job.chat_id).map
    /\ stats' = Count(stats, worker[w].job.chat_id, "released")

\* process_audio_job returns result to its caller, which waits for the next
\* job; rel is the number of complete_job calls the call has made.
Return(w, result, rel) == worker' = [worker EXCEPT ![w] = Returned(result, rel)]

\* Suspend on the next await.
Goto(w, pc) == worker' = [worker EXCEPT ![w].pc = pc]

\* Mutant of Raise: the exception leaves process_audio_job.
Raise_to_caller(w) == Return(w, "raised", 0)

\* An exception reaches "except Exception": _send_error_message runs up to its
\* await of send_message.  The handler reads job only.
Raise(w) == worker' = [worker EXCEPT ![w] = Running("send_error", worker[w].job)]

Quiet == UNCHANGED <<processing_queue, last_call, last_op, main_vars, job_vars>>

NoRelease == UNCHANGED <<user_queue_count, stats>>

\* job = await processing_queue.get(); process_audio_job(job, ...) up to its
\* first await: the size re-check picks which edit_message is awaited.
Get(w) ==
    /\ worker[w].pc = "idle"
    /\ processing_queue # <<>>
    /\ LET got == QueueGet(processing_queue)
           job == got.item
       IN
       /\ processing_queue' = got.rest
       /\ worker' = [worker EXCEPT ![w] =
              Running(IF job.file_size > max_file_size
                      THEN "edit_too_large" ELSE "edit_downloading", job)]
    /\ UNCHANGED <<user_queue_count, stats, last_call, last_op, main_vars, job_vars>>

\* edit_message("File is too large...") ; return False
EditTooLarge(w) ==
    /\ worker[w].pc = "edit_too_large"
    /\ Quiet /\ NoRelease
    /\ \E raised \in BOOLEAN :
         IF raised THEN Raise(w) ELSE Return(w, "False", 0)

\* edit_message("Downloading your audio file...")
EditDownloading(w) ==
    /\ worker[w].pc = "edit_downloading"
    /\ Quiet /\ NoRelease
    /\ \E raised \in BOOLEAN :
         IF raised THEN Raise(w) ELSE Goto(w, "get_messages")

\* original_message = await bot.get_messages(...)
GetMessages(w) ==
    /\ worker[w].pc = "get_messages"
    /\ Quiet /\ NoRelease
    /\ \E raised \in BOOLEAN :
         IF raised THEN Raise(w) ELSE Goto(w, "download_media")

\* await original_message.download_media(temp_path)
DownloadMedia(w) ==
    /\ worker[w].pc = "download_media"
    /\ Quiet /\ NoRelease
    /\ \E raised \in BOOLEAN :
         IF raised THEN Raise(w) ELSE Goto(w, "edit_analyzing")

\* Mutant of TooShort: the comparison includes 0.1 s.
TooShort_inclusive(n) == n * 10 <= AUDIO_SAMPLE_RATE

\* duration < Config.MIN_AUDIO_DURATION, with duration = n / 16000 and
\* MIN_AUDIO_DURATION = 0.1
TooShort(n) == n * 10 < AUDIO_SAMPLE_RATE

\* edit_message("Analyzing audio duration..."), then whisper.load_audio and the
\* duration checks (whisper missing or load_audio failing: decode_raised).
EditAnalyzing(w) ==
    /\ worker[w].pc = "edit_analyzing"
    /\ Quiet /\ NoRelease
    /\ \E raised \in BOOLEAN, decode_raised \in BOOLEAN, n \in SampleCounts :
         IF raised \/ decode_raised THEN Raise(w)
         ELSE worker' = [worker EXCEPT
                  ![w].n = n,
                  ![w].pc = IF n = 0 THEN "send_empty"
                            ELSE IF TooShort(n) THEN "send_too_short"
                            ELSE "edit_processing"]

\* send_message("The audio file appears to be empty or corrupted.") ; return True
SendEmpty(w) ==
    /\ worker[w].pc = "send_empty"
    /\ Quiet /\ NoRelease
    /\ \E raised \in BOOLEAN :
         IF raised THEN Raise(w) ELSE Return(w, "True", 0)

\* send_message("The audio file is too short to transcribe...") ; return True
SendTooShort(w) ==
    /\ worker[w].pc = "send_too_short"
    /\ Quiet /\ NoRelease
    /\ \E raised \in BOOLEAN :
         IF raised THEN Raise(w) ELSE Return(w, "True", 0)

\* Mutant of EditProcessing: model.transcribe is called in place, not through
\* asyncio.to_thread, so the coroutine does not suspend while it runs.
EditProcessing_blocking(w) ==
    /\ worker[w].pc = "edit_processing"
    /\ Quiet /\ NoRelease
    /\ \E raised \in BOOLEAN, t \in Transcriptions :
         IF raised THEN Raise(w)
         ELSE worker' = [worker EXCEPT
                  ![w].pc = IF t.blank THEN "send_no_speech" ELSE "send_chunk",
                  ![w].len = t.len]

\* edit_message("Processing your audio. Estimated time: ...")
EditProcessing(w) ==
    /\ worker[w].pc = "edit_processing"
    /\ Quiet /\ NoRelease
    /\ \E raised \in BOOLEAN :
         IF raised THEN Raise(w) ELSE Goto(w, "transcribe")

\* result = await asyncio.to_thread(model.transcribe, temp_path), then
\* _send_transcription_result up to its first send_message.
Transcribe(w) ==
    /\ worker[w].pc = "transcribe"
    /\ Quiet /\ NoRelease
    /\ \E raised \in BOOLEAN, t \in Transcriptions :
         IF raised THEN Raise(w)
         ELSE worker' = [worker EXCEPT
                  ![w].pc = IF t.blank THEN "send_no_speech" ELSE "send_chunk",
                  ![w].len = t.len]

\* send_message("The audio contained no detectable speech.") ; complete_job ;
\* return True
SendNoSpeech(w) ==
    /\ worker[w].pc = "send_no_speech"
    /\ Quiet
    /\ \E raised \in BOOLEAN :
         IF raised THEN Raise(w) /\ NoRelease
         ELSE CompleteJob(w) /\ Return(w, "True", 1)

\* for i in range(0, len(transcription), max_length - len(header)):
\*     send_message(header + chunk)
\* and after the last chunk: complete_job ; return True
SendChunk(w) ==
    /\ worker[w].pc = "send_chunk"
    /\ Quiet
    /\ \E raised \in BOOLEAN :
         IF raised THEN Raise(w) /\ NoRelease
         ELSE IF worker[w].i + ChunkBody < worker[w].len
              THEN /\ worker' = [worker EXCEPT ![w].i = @ + ChunkBody]
                   /\ NoRelease
              ELSE CompleteJob(w) /\ Return(w, "True", 1)

\* _send_error_message: send_message(error_msg), a failure of which is
\* swallowed; then complete_job ; return False
SendError(w) ==
    /\ worker[w].pc = "send_error"
    /\ Quiet
    /\ \E raised \in BOOLEAN : CompleteJob(w) /\ Return(w, "False", 1)

Pipeline(w) ==
    \/ EditTooLarge(w)
    \/ EditDownloading(w)
    \/ GetMessages(w)
    \/ DownloadMedia(w)
    \/ EditAnalyzing(w)
    \/ SendEmpty(w)
    \/ SendTooShort(w)
    \/ EditProcessing(w)
    \/ Transcribe(w)
    \/ SendNoSpeech(w)
    \/ SendChunk(w)
    \/ SendError(w)

Next ==
    \/ \E chat_id \in Users, file_size \in FileSizes : QueueAudioJob(chat_id, file_size)
    \/ \E w \in Workers : Get(w)
    \/ \E w \in Workers : Pipeline(w)

Spec == Init /\ [][Next]_vars

\* ------------------------------------------------------------------------
\* Direct calls of the counter methods, in any order (the public methods of
\* BotCore that read and write user_queue_count).
\* ------------------------------------------------------------------------

Op(op, chat_id, r, before) ==
    [op |-> op, chat_id |-> chat_id, ret |-> r, before |-> before]

\* The counter methods return an int, can_user_submit_job a bool: 1 for True.
BoolRet(b) == IF b THEN 1 ELSE 0

OpCanUserSubmitJob(chat_id) ==
    LET r == can_user_submit_job(user_queue_count, chat_id) IN
    /\ user_queue_count' = r.map
    /\ last_op' = Op("can_user_submit_job", chat_id, BoolRet(r.ret), user_queue_count)

OpIncrementUserQueueCount(chat_id) ==
    LET r == increment_user_queue_count(user_queue_count, chat_id) IN
    /\ DictRead(user_queue_count, chat_id) < MaxCount
    /\ user_queue_count' = r.map
    /\ last_op' = Op("increment_user_queue_count", chat_id, r.ret, user_queue_count)

OpDecrementUserQueueCount(chat_id) ==
    LET r == decrement_user_queue_count(user_queue_count, chat_id) IN
    /\ user_queue_count' = r.map
    /\ last_op' = Op("decrement_user_queue_count", chat_id, r.ret, user_queue_count)

OpGetUserQueueCount(chat_id) ==
    LET r == get_user_queue_count(user_queue_count, chat_id) IN
    /\ user_queue_count' = r.map
    /\ last_op' = Op("get_user_queue_count", chat_id, r.ret, user_queue_count)

NextCounter ==
    /\ UNCHANGED <<processing_queue, stats, last_call, worker, main_vars, job_vars>>
    /\ \E chat_id \in Users :
         \/ OpCanUserSubmitJob(chat_id)
         \/ OpIncrementUserQueueCount(chat_id)
         \/ OpDecrementUserQueueCount(chat_id)
         \/ OpGetUserQueueCount(chat_id)

SpecCounter == Init /\ [][NextCounter]_vars

\* ------------------------------------------------------------------------
\* main.py: handle_audio, one action per suspending await.
\* ------------------------------------------------------------------------

UpdateKinds == {"voice", "audio", "other"}

HandlerDone == Handler("done", 0, 0)

MainRest == UNCHANGED <<core_vars, last_op, job_vars>>

\* An update arrives: handle_audio runs up to its first await, a reply_text.
HandleAudio(h) ==
    /\ handler[h].pc = "new"
    /\ MainRest /\ UNCHANGED <<main_queue, models, main_worker, main_log>>
    /\ \E kind \in UpdateKinds, file_size \in MainFileSizes :
         LET queue_size == Len(main_queue) IN
         handler' = [handler EXCEPT ![h] =
             IF kind = "other" THEN HandlerDone
             ELSE IF file_size > MAX_FILE_SIZE_MB
                  THEN Handler("reply_too_large", file_size, 0)
             ELSE IF queue_size >= MAX_QUEUE_SIZE
                  THEN Handler("reply_full", file_size, queue_size)
             ELSE Handler("reply_queued", file_size, queue_size)]

\* reply_text("File is too large...") ends; return
ReplyTooLarge(h) ==
    /\ handler[h].pc = "reply_too_large"
    /\ MainRest /\ UNCHANGED <<main_queue, models, main_worker, main_log>>
    /\ handler' = [handler EXCEPT ![h] = HandlerDone]

\* reply_text("Sorry, the processing queue is full...") ends; return
ReplyFull(h) ==
    /\ handler[h].pc = "reply_full"
    /\ MainRest /\ UNCHANGED <<main_queue, models, main_worker, main_log>>
    /\ handler' = [handler EXCEPT ![h] = HandlerDone]

\* reply_text("Your file has been queued...") returns: the Job is built and
\* put (the queue has no maxsize: put does not suspend); or it raises, and the
\* handler ends without a job.
ReplyQueued(h) ==
    /\ handler[h].pc = "reply_queued"
    /\ MainRest /\ UNCHANGED <<models, main_worker>>
    /\ handler' = [handler EXCEPT ![h] = HandlerDone]
    /\ \E raised \in BOOLEAN :
         IF raised THEN UNCHANGED <<main_queue, main_log>>
         ELSE /\ ~QueueFull(main_queue)
              /\ main_queue' = QueuePut(main_queue, MainJob(h, handler[h].file_size))
              /\ main_log' = [main_log EXCEPT !.put = Append(@, h)]

\* ------------------------------------------------------------------------
\* main.py: worker, one action per suspending await.
\* ------------------------------------------------------------------------

MGoto(w, pc) == main_worker' = [main_worker EXCEPT ![w].pc = pc]

\* Mutant of MRaise: the exception leaves the worker coroutine.
MRaise_ends_worker(w) == MGoto(w, "exited")

\* except Exception: the error message is chosen and send_message awaited.
MRaise(w) == MGoto(w, "send_error")

\* Mutant of MFinally: the iteration ends without the delete_message call.
MFinally_skips_delete(w) ==
    main_worker' = [main_worker EXCEPT ![w] =
        MainWorker("get", NoMainJob, main_worker[w].model)]

\* finally: delete_message is awaited.
MFinally(w) == MGoto(w, "delete_message")

MQuiet == MainRest /\ UNCHANGED <<main_queue, models, handler>>

NoLogging == UNCHANGED main_log

\* whisper.load_model(WHISPER_MODEL): every call builds a new model object.
\* Mutant: every call hands out the same object.
LoadModel_shared(ms) == 1

LoadModel(ms) == Cardinality(DOMAIN ms) + 1

\* BotCore.get_worker_model(worker_name) on the model map ms: the handle kept
\* for the name, or a newly loaded one; None (0) when whisper is missing or
\* load_model raises.  Returns [ret |-> handle, models |-> the map afterwards].
get_worker_model(ms, worker_name, whisper_present, load_ok) ==
    IF worker_name \notin DOMAIN ms
    THEN IF ~whisper_present THEN [ret |-> 0, models |-> ms]
         ELSE IF load_ok
              THEN LET loaded == ms @@ (worker_name :> LoadModel(ms))
                   IN  [ret |-> loaded[worker_name], models |-> loaded]
              ELSE [ret |-> 0, models |-> ms]
    ELSE [ret |-> ms[worker_name], models |-> ms]

\* Mutant of WorkerStart: a worker whose model could not be loaded enters the
\* loop all the same.
WorkerStart_enters_loop(w) ==
    /\ main_worker[w].pc = "start"
    /\ MainRest /\ UNCHANGED <<main_queue, handler, main_log>>
    /\ \E loaded \in BOOLEAN :
         IF loaded
         THEN /\ models' = models @@ (w :> LoadModel(models))
              /\ main_worker' = [main_worker EXCEPT
                     ![w].pc = "get", ![w].model = models'[w]]
         ELSE /\ UNCHANGED models
              /\ MGoto(w, "get")

\* The task starts: the model is loaded (a blocking call), or the worker
\* returns when whisper is missing or load_model raises.
WorkerStart(w) ==
    /\ main_worker[w].pc = "start"
    /\ MainRest /\ UNCHANGED <<main_queue, handler, main_log>>
    /\ \E loaded \in BOOLEAN :
         IF w \in DOMAIN models
         THEN /\ UNCHANGED models
              /\ main_worker' = [main_worker EXCEPT
                     ![w].pc = "get", ![w].model = models[w]]
         ELSE IF loaded
         THEN /\ models' = models @@ (w :> LoadModel(models))
              /\ main_worker' = [main_worker EXCEPT
                     ![w].pc = "get", ![w].model = models'[w]]
         ELSE /\ UNCHANGED models
              /\ MGoto(w, "exited")

\* job = await processing_queue.get(), then the size check up to the
\* edit_message_text it leads to.
MainGet(w) ==
    /\ main_worker[w].pc = "get"
    /\ main_queue # <<>>
    /\ MainRest /\ UNCHANGED <<models, handler>>
    /\ LET got == QueueGet(main_queue) IN
       /\ main_queue' = got.rest
       /\ main_worker' = [main_worker EXCEPT ![w] =
              MainWorker("first_edit", got.item, main_worker[w].model)]
       /\ main_log' = [main_log EXCEPT !.got = Append(@, got.item.message_id)]

\* edit_message_text("File is too large...") ; continue  -- or --
\* edit_message_text("Downloading your audio file...")
MainFirstEdit(w) ==
    /\ main_worker[w].pc = "first_edit"
    /\ MQuiet /\ NoLogging
    /\ \E raised \in BOOLEAN :
         IF raised THEN MRaise(w)
         ELSE IF main_worker[w].job.file_size > MAX_FILE_SIZE_MB THEN MFinally(w)
         ELSE MGoto(w, "get_file")

\* file = await bot.get_file(job.file_id)
MainGetFile(w) ==
    /\ main_worker[w].pc = "get_file"
    /\ MQuiet /\ NoLogging
    /\ \E raised \in BOOLEAN :
         IF raised THEN MRaise(w) ELSE MGoto(w, "download_to_drive")

\* await file.download_to_drive(temp_path)
MainDownload(w) ==
    /\ main_worker[w].pc = "download_to_drive"
    /\ MQuiet /\ NoLogging
    /\ \E raised \in BOOLEAN :
         IF raised THEN MRaise(w) ELSE MGoto(w, "edit_analyzing")

\* edit_message_text("Analyzing audio duration..."), then whisper.load_audio
MainEditAnalyzing(w) ==
    /\ main_worker[w].pc = "edit_analyzing"
    /\ MQuiet /\ NoLogging
    /\ \E raised \in BOOLEAN, decode_raised \in BOOLEAN :
         IF raised \/ decode_raised THEN MRaise(w) ELSE MGoto(w, "edit_processing")

\* edit_message_text("Processing your audio. Estimated time: ...")
MainEditProcessing(w) ==
    /\ main_worker[w].pc = "edit_processing"
    /\ MQuiet /\ NoLogging
    /\ \E raised \in BOOLEAN :
         IF raised THEN MRaise(w) ELSE MGoto(w, "transcribe")

\* result = await asyncio.to_thread(model.transcribe, temp_path)
MainTranscribe(w) ==
    /\ main_worker[w].pc = "transcribe"
    /\ MQuiet /\ NoLogging
    /\ \E raised \in BOOLEAN, t \in Transcriptions :
         IF raised THEN MRaise(w)
         ELSE main_worker' = [main_worker EXCEPT
                  ![w].pc = IF t.blank THEN "send_no_speech" ELSE "send_chunk",
                  ![w].len = t.len]

\* send_message("The audio contained no detectable speech.")
MainSendNoSpeech(w) ==
    /\ main_worker[w].pc = "send_no_speech"
    /\ MQuiet /\ NoLogging
    /\ \E raised \in BOOLEAN :
         IF raised THEN MRaise(w) ELSE MFinally(w)

\* for i in range(0, len(transcription), max_length - len(header)): send_message
MainSendChunk(w) ==
    /\ main_worker[w].pc = "send_chunk"
    /\ MQuiet /\ NoLogging
    /\ \E raised \in BOOLEAN :
         IF raised THEN MRaise(w)
         ELSE IF main_worker[w].i + ChunkBody < main_worker[w].len
              THEN main_worker' = [main_worker EXCEPT ![w].i = @ + ChunkBody]
              ELSE MFinally(w)

\* send_message(error_msg) ends (a failure is logged and swallowed)
MainSendError(w) ==
    /\ main_worker[w].pc = "send_error"
    /\ MQuiet /\ NoLogging
    /\ MFinally(w)

\* delete_message ends (a failure is swallowed) ; task_done ; next iteration
MainDeleteMessage(w) ==
    /\ main_worker[w].pc = "delete_message"
    /\ MQuiet
    /\ \E raised \in BOOLEAN :
         /\ main_worker' = [main_worker EXCEPT ![w] =
                MainWorker("get", NoMainJob, main_worker[w].model)]
         /\ main_log' = [main_log EXCEPT
                !.deleted = Append(@, main_worker[w].job.message_id)]

NextMain ==
    \/ \E h \in Updates :
         \/ HandleAudio(h)
         \/ ReplyTooLarge(h)
         \/ ReplyFull(h)
         \/ ReplyQueued(h)
    \/ \E w \in MainWorkers :
         \/ WorkerStart(w)
         \/ MainGet(w)
         \/ MainFirstEdit(w)
         \/ MainGetFile(w)
         \/ MainDownload(w)
         \/ MainEditAnalyzing(w)
         \/ MainEditProcessing(w)
         \/ MainTranscribe(w)
         \/ MainSendNoSpeech(w)
         \/ MainSendChunk(w)
         \/ MainSendError(w)
         \/ MainDeleteMessage(w)

SpecMain == Init /\ [][NextMain]_vars

\* The steps of worker w: every call the worker awaits returns or raises in
\* the end, and a worker waiting in get is resumed when the queue has a job.
MainWorkerStep(w) ==
    \/ WorkerStart(w)
    \/ MainGet(w)
    \/ MainFirstEdit(w)
    \/ MainGetFile(w)
    \/ MainDownload(w)
    \/ MainEditAnalyzing(w)
    \/ MainEditProcessing(w)
    \/ MainTranscribe(w)
    \/ MainSendNoSpeech(w)
    \/ MainSendChunk(w)
    \/ MainSendError(w)
    \/ MainDeleteMessage(w)

\* main.py with the handlers and one worker task running (the other tasks
\* have not been scheduled yet), under the scheduling the event loop gives
\* that task: its pending call returns or raises in the end.
NextMainFair ==
    \/ \E h \in Updates :
         \/ HandleAudio(h)
         \/ ReplyTooLarge(h)
         \/ ReplyFull(h)
         \/ ReplyQueued(h)
    \/ MainWorkerStep(1)

SpecMainFair == Init /\ [][NextMainFair]_vars /\ WF_vars(MainWorkerStep(1))

\* ------------------------------------------------------------------------
\* The text functions applied to the texts tried, with a transport on which
\* every send_message returns.
\* ------------------------------------------------------------------------

\* AudioMessage(file_id, file_size, mime_type, file_name, file_unique_id).  A
\* file_name of None and one of "" are both the empty text: the code tells
\* them apart nowhere ("if not file_name").  Sizes are in KiB.
AudioMessage(file_id, file_size, mime_type, file_name, file_unique_id) ==
    [file_id |-> file_id, file_size |-> file_size, mime_type |-> mime_type,
     file_name |-> file_name, file_unique_id |-> file_unique_id]

\* The values of max_file_size tried: 20 MiB (the tests' BotCore) and 2 GiB
\* (the default), in KiB.
FileSizeLimits == {20 * 1024, 2 * 1024 * 1024}

\* The MIME types tried; the last one has no subtype.
MimeTypes ==
    { <<"a", "u", "d", "i", "o", "/", "o", "g", "g">>,
      <<"a", "u", "d", "i", "o", "/", "m", "p", "e", "g">>,
      <<"A", "U", "D", "I", "O", "/", "O", "G", "G">>,
      <<"t", "e", "x", "t", "/", "p", "l", "a", "i", "n">>,
      <<"o", "g", "g">> }

\* The display names tried: none, and "a.mp3".
FileNames == { <<>>, <<"a", ".", "m", "p", "3">> }

\* Mutant of validate_audio_file: a file of exactly the limit is rejected.
validate_audio_file_inclusive(audio, limit) ==
    IF audio.file_size >= limit
    THEN << Text("File is too large. The limit is 2 GB.") >>
    ELSE <<>>

\* BotCore.validate_audio_file with max_file_size = limit: the error message,
\* or None (the empty sequence).
validate_audio_file(audio, limit) ==
    IF audio.file_size > limit
    THEN << Text("File is too large. The limit is 2 GB.") >>
    ELSE <<>>

\* str.split(sep): the pieces of s between the occurrences of sep.
RECURSIVE split(_, _)
split(s, sep) ==
    IF \E k \in 1..Len(s) : s[k] = sep
    THEN LET k == CHOOSE j \in 1..Len(s) : s[j] = sep /\ \A i \in 1..(j - 1) : s[i] # sep
         IN  <<SubSeq(s, 1, k - 1)>> \o split(SubSeq(s, k + 1, Len(s)), sep)
    ELSE <<s>>

\* Mutant of determine_filename: a voice-message name for every file without a
\* display name.
determine_filename_always_voice(audio) ==
    IF audio.file_name # <<>> THEN << audio.file_name >>
    ELSE << <<"v", "o", "i", "c", "e", "_", "m", "e", "s", "s", "a", "g", "e",
              ".", "o", "g", "g">> >>

\* queue_audio_job, "Determine filename": the file name in a one-element
\* sequence, or the empty sequence when mime_type.split('/')[1] raises
\* IndexError.
determine_filename(audio) ==
    IF audio.file_name # <<>> THEN << audio.file_name >>
    ELSE IF audio.mime_type = <<"a", "u", "d", "i", "o", "/", "o", "g", "g">>
    THEN << <<"v", "o", "i", "c", "e", "_", "m", "e", "s", "s", "a", "g", "e",
              ".", "o", "g", "g">> >>
    ELSE IF Len(split(audio.mime_type, "/")) < 2 THEN <<>>
    ELSE << <<"a", "u", "d", "i", "o", "_", "f", "i", "l", "e", "_">>
              \o audio.file_unique_id \o <<".">> \o split(audio.mime_type, "/")[2] >>

\* queue_audio_job on a new BotCore (both gates pass): the Job it puts, or
\* nothing when the file name raises.
queued_job(chat_id, message_id, audio, processing_msg_id) ==
    IF determine_filename(audio) = <<>> THEN <<>>
    ELSE << [chat_id |-> chat_id, message_id |-> message_id,
             file_id |-> audio.file_id, file_name |-> determine_filename(audio)[1],
             mime_type |-> audio.mime_type, file_size |-> audio.file_size,
             processing_msg_id |-> processing_msg_id] >>

TextRest == UNCHANGED <<core_vars, last_op, main_vars, run, scratch>>

ApplySendTranscriptionResult(transcription) ==
    /\ applied' = [fn |-> "_send_transcription_result", arg |-> transcription,
                    out |-> send_transcription_result(transcription)]
    /\ TextRest

ApplySendErrorMessage(error) ==
    /\ applied' = [fn |-> "_send_error_message", arg |-> error,
                    out |-> << send_error_message(error) >>]
    /\ TextRest

ApplyMainErrorMsg(e) ==
    /\ applied' = [fn |-> "worker", arg |-> e, out |-> << main_error_msg(e) >>]
    /\ TextRest

\* validate_audio_file(audio) on a BotCore(max_file_size = limit)
ApplyValidateAudioFile(audio, limit) ==
    /\ applied' = [fn |-> "validate_audio_file",
                    arg |-> [audio |-> audio, max_file_size |-> limit],
                    out |-> validate_audio_file(audio, limit)]
    /\ TextRest

\* queue_audio_job(chat_id, message_id, audio, processing_msg_id) on a new
\* BotCore
ApplyQueueAudioJob(chat_id, message_id, audio, processing_msg_id) ==
    /\ applied' = [fn |-> "queue_audio_job",
                    arg |-> [chat_id |-> chat_id, message_id |-> message_id,
                             audio |-> audio, processing_msg_id |-> processing_msg_id],
                    out |-> queued_job(chat_id, message_id, audio, processing_msg_id)]
    /\ TextRest

NextText ==
    \/ \E transcription \in Texts : ApplySendTranscriptionResult(transcription)
    \/ \E error \in ErrorTexts : ApplySendErrorMessage(error)
    \/ \E e \in ErrorTexts : ApplyMainErrorMsg(e)
    \/ \E limit \in FileSizeLimits, d \in {-1, 0, 1}, mime_type \in MimeTypes :
         ApplyValidateAudioFile(
             AudioMessage("file", limit + d, mime_type, <<>>, <<"u", "1">>), limit)
    \/ \E chat_id \in Users, mime_type \in MimeTypes, file_name \in FileNames,
          file_size \in FileSizes :
         ApplyQueueAudioJob(chat_id, chat_id + 10,
             AudioMessage("file", file_size, mime_type, file_name, <<"u", "1">>),
             chat_id + 100)

SpecText == Init /\ [][NextText]_vars

\* ------------------------------------------------------------------------
\* BotCore.process_audio_job with its transport observed: the pipeline again,
\* one action per suspending await, each recording the call that has just
\* ended (its text, whom it went to, whether it returned or raised), the
\* temporary directory of the with block and the error message chosen.
\* ------------------------------------------------------------------------

\* A call made on the transport or on whisper.  An edit_message goes to the
\* status message (reply_to 0), a send_message replies to the source message.
Made(op, job, text, ok) ==
    [op |-> op, chat_id |-> job.chat_id,
     reply_to |-> IF op = "send_message" THEN job.message_id ELSE 0,
     text |-> text, ok |-> ok]

\* The texts process_audio_job and _send_transcription_result put on the
\* status message and in their replies.
StatusText ==
    [ too_large |-> Text("File is too large. The limit is 2 GB."),
      downloading |-> Text("Downloading your audio file..."),
      analyzing |-> Text("Analyzing audio duration..."),
      empty_audio |-> Text("The audio file appears to be empty or corrupted."),
      too_short |->
          Text("The audio file is too short to transcribe (less than 0.1 seconds)."),
      processing |->
          Text("Processing your audio. Estimated time: {estimated_seconds:1.0f} seconds."),
      no_speech |-> Text("The audio contained no detectable speech.") ]

\* The values of len(audio): no samples, just under 0.1 s and 0.1 s.
JobSampleCounts == {0, 1599, 1600}

\* The exceptions a failing call raises, by their text.
JobErrors == {Phrase.Download, Phrase.timed_out}

\* The texts model.transcribe returns: none, blanks, one chunk with blanks
\* around it, and one character more than a chunk.
JobTexts ==
    { <<>>, <<" ", "\n">>, <<" ", "h", "i", "\n">>,
      TextOf(TELEGRAM_MESSAGE_LIMIT - Len(header) + 1, 0, 0) }

\* tempfile.mkdtemp, called by TemporaryDirectory(): a name no directory has.
mkdtemp(s) == s.made + 1

\* with tempfile.TemporaryDirectory() as temp_dir: the block is entered.
EnterTemporaryDirectory(s) ==
    [made |-> s.made + 1, live |-> s.live \cup {mkdtemp(s)}]

\* Mutant of ExitTemporaryDirectory: the directory is left behind.
ExitTemporaryDirectory_leaves(s, temp_dir) == s

\* The with block is left, by its end, a return or an exception: cleanup().
ExitTemporaryDirectory(s, temp_dir) == [s EXCEPT !.live = @ \ {temp_dir}]

JobQuiet == UNCHANGED <<processing_queue, last_call, worker, last_op, main_vars, applied>>

\* The call that was awaited has ended and is recorded.
Logged(r, op, text, ok) == [r EXCEPT !.calls = Append(@, Made(op, r.job, text, ok))]

\* except Exception as e: _send_error_message has chosen its text and awaits
\* send_message.
Caught(r, e) ==
    [r EXCEPT !.pc = "send_error", !.error_msg = send_error_message(e)]

\* return result
Finished(r, result, rel) == [r EXCEPT !.pc = "idle", !.result = result, !.rel = rel]

\* complete_job(job)
JobCompleteJob(w) ==
    /\ user_queue_count' =
           decrement_user_queue_count(user_queue_count, run[w].job.chat_id).map
    /\ stats' = Count(stats, run[w].job.chat_id, "released")

\* Mutant of JobGet: process_audio_job without the size re-check.
JobGet_no_recheck(w) ==
    /\ run[w].pc = "idle"
    /\ processing_queue # <<>>
    /\ LET got == QueueGet(processing_queue) IN
       /\ processing_queue' = got.rest
       /\ run' = [run EXCEPT ![w] = RunOf("edit_downloading", got.item)]
    /\ UNCHANGED <<user_queue_count, stats, last_call, worker, last_op, main_vars,
                   scratch, applied>>

\* job = await processing_queue.get(); process_audio_job(job, ...) up to its
\* first await.
JobGet(w) ==
    /\ run[w].pc = "idle"
    /\ processing_queue # <<>>
    /\ LET got == QueueGet(processing_queue) IN
       /\ processing_queue' = got.rest
       /\ run' = [run EXCEPT ![w] =
              RunOf(IF got.item.file_size > max_file_size
                    THEN "edit_too_large" ELSE "edit_downloading", got.item)]
    /\ UNCHANGED <<user_queue_count, stats, last_call, worker, last_op, main_vars,
                   scratch, applied>>

\* Mutant of JobEditTooLarge: after the edit the error message is sent too.
JobEditTooLarge_and_notifies(w) ==
    /\ run[w].pc = "edit_too_large"
    /\ JobQuiet /\ NoRelease /\ UNCHANGED scratch
    /\ \E raised \in BOOLEAN, e \in JobErrors :
         run' = [run EXCEPT ![w] =
                    Caught(Logged(run[w], "edit_message", StatusText.too_large, ~raised), e)]

\* edit_message("File is too large...") ; return False
JobEditTooLarge(w) ==
    /\ run[w].pc = "edit_too_large"
    /\ JobQuiet /\ NoRelease /\ UNCHANGED scratch
    /\ \E raised \in BOOLEAN, e \in JobErrors :
         LET r == Logged(run[w], "edit_message", StatusText.too_large, ~raised) IN
         run' = [run EXCEPT ![w] =
                    IF raised THEN Caught(r, e) ELSE Finished(r, "False", 0)]

\* edit_message("Downloading your audio file...")
JobEditDownloading(w) ==
    /\ run[w].pc = "edit_downloading"
    /\ JobQuiet /\ NoRelease /\ UNCHANGED scratch
    /\ \E raised \in BOOLEAN, e \in JobErrors :
         LET r == Logged(run[w], "edit_message", StatusText.downloading, ~raised) IN
         run' = [run EXCEPT ![w] =
                    IF raised THEN Caught(r, e) ELSE [r EXCEPT !.pc = "get_messages"]]

\* original_message = await bot.get_messages(...) ; the with block is entered
JobGetMessages(w) ==
    /\ run[w].pc = "get_messages"
    /\ JobQuiet /\ NoRelease
    /\ \E raised \in BOOLEAN, e \in JobErrors :
         LET r == Logged(run[w], "get_messages", NoText, ~raised) IN
         IF raised
         THEN /\ run' = [run EXCEPT ![w] = Caught(r, e)]
              /\ UNCHANGED scratch
         ELSE /\ run' = [run EXCEPT ![w] =
                     [r EXCEPT !.pc = "download_media", !.temp_dir = mkdtemp(scratch)]]
              /\ scratch' = EnterTemporaryDirectory(scratch)

\* await original_message.download_media(temp_path)
JobDownloadMedia(w) ==
    /\ run[w].pc = "download_media"
    /\ JobQuiet /\ NoRelease
    /\ \E raised \in BOOLEAN, e \in JobErrors :
         LET r == Logged(run[w], "download_media", NoText, ~raised) IN
         IF raised
         THEN /\ run' = [run EXCEPT ![w] = Caught(r, e)]
              /\ scratch' = ExitTemporaryDirectory(scratch, r.temp_dir)
         ELSE /\ run' = [run EXCEPT ![w] = [r EXCEPT !.pc = "edit_analyzing"]]
              /\ UNCHANGED scratch

\* edit_message("Analyzing audio duration..."), then whisper.load_audio and
\* the duration checks.
JobEditAnalyzing(w) ==
    /\ run[w].pc = "edit_analyzing"
    /\ JobQuiet /\ NoRelease
    /\ \E raised \in BOOLEAN, decode_raised \in BOOLEAN, e \in JobErrors,
          n \in JobSampleCounts :
         LET r == Logged(run[w], "edit_message", StatusText.analyzing, ~raised)
             a == Logged(r, "load_audio", NoText, ~decode_raised)
         IN
         IF raised
         THEN /\ run' = [run EXCEPT ![w] = Caught(r, e)]
              /\ scratch' = ExitTemporaryDirectory(scratch, r.temp_dir)
         ELSE IF decode_raised
         THEN /\ run' = [run EXCEPT ![w] = Caught(a, e)]
              /\ scratch' = ExitTemporaryDirectory(scratch, r.temp_dir)
         ELSE /\ run' = [run EXCEPT ![w] =
                     [a EXCEPT !.n = n,
                               !.pc = IF n = 0 THEN "send_empty"
                                      ELSE IF TooShort(n) THEN "send_too_short"
                                      ELSE "edit_processing"]]
              /\ UNCHANGED scratch

\* send_message("The audio file appears to be empty or corrupted.") ; return True
JobSendEmpty(w) ==
    /\ run[w].pc = "send_empty"
    /\ JobQuiet /\ NoRelease
    /\ scratch' = ExitTemporaryDirectory(scratch, run[w].temp_dir)
    /\ \E raised \in BOOLEAN, e \in JobErrors :
         LET r == Logged(run[w], "send_message", StatusText.empty_audio, ~raised) IN
         run' = [run EXCEPT ![w] =
                    IF raised THEN Caught(r, e) ELSE Finished(r, "True", 0)]

\* send_message("The audio file is too short to transcribe...") ; return True
JobSendTooShort(w) ==
    /\ run[w].pc = "send_too_short"
    /\ JobQuiet /\ NoRelease
    /\ scratch' = ExitTemporaryDirectory(scratch, run[w].temp_dir)
    /\ \E raised \in BOOLEAN, e \in JobErrors :
         LET r == Logged(run[w], "send_message", StatusText.too_short, ~raised) IN
         run' = [run EXCEPT ![w] =
                    IF raised THEN Caught(r, e) ELSE Finished(r, "True", 0)]

\* Mutant of JobEditProcessing: a failure of the edit is ignored.
JobEditProcessing_ignores_failure(w) ==
    /\ run[w].pc = "edit_processing"
    /\ JobQuiet /\ NoRelease /\ UNCHANGED scratch
    /\ \E raised \in BOOLEAN :
         run' = [run EXCEPT ![w] =
                    [Logged(run[w], "edit_message", StatusText.processing, ~raised)
                        EXCEPT !.pc = "transcribe"]]

\* edit_message("Processing your audio. Estimated time: ...")
JobEditProcessing(w) ==
    /\ run[w].pc = "edit_processing"
    /\ JobQuiet /\ NoRelease
    /\ \E raised \in BOOLEAN, e \in JobErrors :
         LET r == Logged(run[w], "edit_message", StatusText.processing, ~raised) IN
         IF raised
         THEN /\ run' = [run EXCEPT ![w] = Caught(r, e)]
              /\ scratch' = ExitTemporaryDirectory(scratch, r.temp_dir)
         ELSE /\ run' = [run EXCEPT ![w] = [r EXCEPT !.pc = "transcribe"]]
              /\ UNCHANGED scratch

\* result = await asyncio.to_thread(model.transcribe, temp_path) ; the with
\* block ends ; _send_transcription_result up to its first send_message
JobTranscribe(w) ==
    /\ run[w].pc = "transcribe"
    /\ JobQuiet /\ NoRelease
    /\ scratch' = ExitTemporaryDirectory(scratch, run[w].temp_dir)
    /\ \E raised \in BOOLEAN, e \in JobErrors, transcription \in JobTexts :
         LET r == Logged(run[w], "transcribe", NoText, ~raised) IN
         run' = [run EXCEPT ![w] =
                    IF raised THEN Caught(r, e)
                    ELSE [r EXCEPT !.pc = "send_result",
                                   !.transcription = transcription]]

\* Mutant of JobSendResult: the loop ends after the first chunk.
JobSendResult_first_chunk_only(w) ==
    /\ run[w].pc = "send_result"
    /\ JobQuiet /\ UNCHANGED scratch
    /\ \E raised \in BOOLEAN, e \in JobErrors :
         LET messages == send_transcription_result(run[w].transcription)
             r == Logged(run[w], "send_message", messages[run[w].k + 1], ~raised)
         IN
         IF raised
         THEN /\ run' = [run EXCEPT ![w] = Caught(r, e)]
              /\ NoRelease
         ELSE /\ run' = [run EXCEPT ![w] = Finished([r EXCEPT !.k = @ + 1], "True", 1)]
              /\ JobCompleteJob(w)

\* _send_transcription_result: a send_message has ended; the next one, or
\* after the last: complete_job ; return True
JobSendResult(w) ==
    /\ run[w].pc = "send_result"
    /\ JobQuiet /\ UNCHANGED scratch
    /\ \E raised \in BOOLEAN, e \in JobErrors :
         LET messages == send_transcription_result(run[w].transcription)
             r == Logged(run[w], "send_message", messages[run[w].k + 1], ~raised)
         IN
         IF raised
         THEN /\ run' = [run EXCEPT ![w] = Caught(r, e)]
              /\ NoRelease
         ELSE IF r.k + 1 < Len(messages)
         THEN /\ run' = [run EXCEPT ![w] = [r EXCEPT !.k = @ + 1]]
              /\ NoRelease
         ELSE /\ run' = [run EXCEPT ![w] = Finished([r EXCEPT !.k = @ + 1], "True", 1)]
              /\ JobCompleteJob(w)

\* Mutant of JobSendError: a failure of the notification leaves
\* process_audio_job as an exception.
JobSendError_propagates(w) ==
    /\ run[w].pc = "send_error"
    /\ JobQuiet /\ UNCHANGED scratch
    /\ \E raised \in BOOLEAN :
         LET r == Logged(run[w], "send_message", run[w].error_msg, ~raised) IN
         IF raised
         THEN /\ run' = [run EXCEPT ![w] = Finished(r, "raised", 0)]
              /\ NoRelease
         ELSE /\ run' = [run EXCEPT ![w] = Finished(r, "False", 1)]
              /\ JobCompleteJob(w)

\* _send_error_message: send_message(error_msg) has ended, a failure of it is
\* logged and swallowed ; complete_job ; return False
JobSendError(w) ==
    /\ run[w].pc = "send_error"
    /\ JobQuiet /\ UNCHANGED scratch
    /\ \E raised \in BOOLEAN :
         LET r == Logged(run[w], "send_message", run[w].error_msg, ~raised) IN
         /\ run' = [run EXCEPT ![w] = Finished(r, "False", 1)]
         /\ JobCompleteJob(w)

\* A fresh BotCore after up to num_workers admitted queue_audio_job calls:
\* the n-th call carries message n.
InitJob ==
    /\ \E n \in 1..num_workers : \E chat \in [1..n -> Users], size \in [1..n -> FileSizes] :
         /\ n <= max_queue_size
         /\ \A u \in Users :
              Cardinality({k \in 1..n : chat[k] = u}) <= max_jobs_per_user_in_queue
         /\ processing_queue = [k \in 1..n |-> Job(chat[k], k, size[k])]
         /\ user_queue_count =
                [u \in {chat[k] : k \in 1..n} |-> Cardinality({k \in 1..n : chat[k] = u})]
         /\ stats = [u \in Users |->
                [NoStats EXCEPT !.ok = Cardinality({k \in 1..n : chat[k] = u})]]
         /\ last_call = Call(chat[n], TRUE, NoMsg)
    /\ worker = [w \in Workers |-> Idle]
    /\ last_op = NoOp
    /\ main_queue = <<>>
    /\ models = <<>>
    /\ handler = [h \in Updates |-> Handler("new", 0, 0)]
    /\ main_worker = [w \in MainWorkers |-> MainWorker("start", NoMainJob, 0)]
    /\ main_log = NoLog
    /\ run = [w \in Workers |-> NoRun]
    /\ scratch = NoScratch
    /\ applied = NoApplied

NextJob ==
    \E w \in Workers :
        \/ JobGet(w)
        \/ JobEditTooLarge(w)
        \/ JobEditDownloading(w)
        \/ JobGetMessages(w)
        \/ JobDownloadMedia(w)
        \/ JobEditAnalyzing(w)
        \/ JobSendEmpty(w)
        \/ JobSendTooShort(w)
        \/ JobEditProcessing(w)
        \/ JobTranscribe(w)
        \/ JobSendResult(w)
        \/ JobSendError(w)

SpecJob == InitJob /\ [][NextJob]_vars

\* ------------------------------------------------------------------------
\* BotCore with its queue at capacity: the state after max_queue_size
\* admitted queue_audio_job calls (of files of an allowed size, by any chats
\* within their ceilings) and one more call, by chat 1, which was rejected.
\* The jobs queued so far carry the message ids below 0; stats counts the
\* calls from the rejected one on, and the releases from this state on.
\* ------------------------------------------------------------------------

InitFull ==
    /\ \E chat \in [1..max_queue_size -> Users] :
         /\ \A u \in Users :
              Cardinality({k \in 1..max_queue_size : chat[k] = u})
                  <= max_jobs_per_user_in_queue
         /\ processing_queue =
                [k \in 1..max_queue_size |-> Job(chat[k], k - max_queue_size - 1, max_file_size)]
         /\ user_queue_count =
                [u \in {chat[k] : k \in 1..max_queue_size} |->
                    Cardinality({k \in 1..max_queue_size : chat[k] = u})]
    /\ last_call = Call(1, FALSE, QueueFullMsg)
    /\ stats = Count([u \in Users |-> NoStats], 1, "queue_full")
    /\ worker = [w \in Workers |-> Idle]
    /\ last_op = NoOp
    /\ main_queue = <<>>
    /\ models = <<>>
    /\ handler = [h \in Updates |-> Handler("new", 0, 0)]
    /\ main_worker = [w \in MainWorkers |-> MainWorker("start", NoMainJob, 0)]
    /\ main_log = NoLog
    /\ run = [w \in Workers |-> NoRun]
    /\ scratch = NoScratch
    /\ applied = NoApplied

\* The producers and one worker (the other worker has not taken a job yet).
NextFull ==
    \/ \E chat_id \in Users, file_size \in FileSizes : QueueAudioJob(chat_id, file_size)
    \/ Get(1)
    \/ Pipeline(1)

SpecFull == InitFull /\ [][NextFull]_vars

\* ------------------------------------------------------------------------
\* Properties
\* ------------------------------------------------------------------------

Min(a, b) == IF a < b THEN a ELSE b

\* The chat's count as get_user_queue_count reports it.
CountOf(u) == DictRead(user_queue_count, u)

\* queue_audio_job calls made for chat u so far.
Attempts(u) == stats[u].ok + stats[u].user_limit + stats[u].queue_full

\* Jobs of chat u in the queue, and jobs of chat u a worker is processing.
Queued(u) ==
    Cardinality({k \in 1..Len(processing_queue) : processing_queue[k].chat_id = u})

InFlight(u) ==
    Cardinality({w \in Workers : worker[w].pc # "idle" /\ worker[w].job.chat_id = u})

\* C1: a chat's count never exceeds the ceiling K, and as long as no slot of
\* the chat has been released and none of its calls met a full queue, of its N
\* queue_audio_job calls exactly min(N, K) succeeded, the other N - K failed,
\* and its count is the number that succeeded (K once N >= K).
C1_PerUserCeiling ==
    \A u \in Users :
        /\ CountOf(u) <= max_jobs_per_user_in_queue
        /\ (stats[u].released = 0 /\ stats[u].queue_full = 0) =>
              /\ stats[u].ok = Min(Attempts(u), max_jobs_per_user_in_queue)
              /\ stats[u].user_limit = Attempts(u) - stats[u].ok
              /\ CountOf(u) = stats[u].ok

\* N > K calls for one chat: K succeeded, N - K were refused, the count is K.
C1_Witness ==
    \E u \in Users :
        /\ stats[u].released = 0 /\ stats[u].queue_full = 0
        /\ Attempts(u) > max_jobs_per_user_in_queue
        /\ stats[u].ok = max_jobs_per_user_in_queue
        /\ stats[u].user_limit = Attempts(u) - max_jobs_per_user_in_queue
        /\ CountOf(u) = max_jobs_per_user_in_queue

\* C2: the comparison and the increment are one step: whenever a chat's count
\* goes up, it goes up by one, in the step of one successful queue_audio_job
\* call of that chat, from a value that is below the ceiling in the very state
\* the increment is applied to, and no other chat's count moves in that step;
\* whenever it goes down, it goes down by one in the step of one complete_job
\* and no call is part of that step.
C2_AtomicCheckAndIncrement ==
    [][\A u \in Users :
          /\ CountOf(u)' > CountOf(u) =>
                /\ CountOf(u) < max_jobs_per_user_in_queue
                /\ CountOf(u)' = CountOf(u) + 1
                /\ stats'[u] = [stats[u] EXCEPT !.ok = @ + 1]
                /\ last_call' = Call(u, TRUE, NoMsg)
                /\ \A v \in Users \ {u} : CountOf(v)' = CountOf(v) /\ stats'[v] = stats[v]
          /\ CountOf(u)' < CountOf(u) =>
                /\ CountOf(u)' = CountOf(u) - 1
                /\ stats'[u] = [stats[u] EXCEPT !.released = @ + 1]
                /\ \A v \in Users \ {u} : CountOf(v)' = CountOf(v) /\ stats'[v] = stats[v]
      ]_vars

\* An admission has just taken a chat's last slot: the comparison held at K - 1
\* and the count is K.
C2_Witness ==
    /\ last_call.ok
    /\ last_call.chat_id \in Users
    /\ CountOf(last_call.chat_id) = max_jobs_per_user_in_queue

\* C3: whenever process_audio_job has returned, on any exit path, it has
\* called complete_job for the job exactly once.
C3_ReleasedExactlyOnce ==
    \A w \in Workers :
        (worker[w].pc = "idle" /\ worker[w].result # "none") => worker[w].rel = 1

\* C4: in every state a chat's count is the number of its jobs that are queued
\* or being processed.
C4_CountIsOutstanding ==
    \A u \in Users : CountOf(u) = Queued(u) + InFlight(u)

\* C5: the queue never holds more than max_queue_size jobs, is_queue_full is
\* true exactly when it holds max_queue_size, and a queue_audio_job call made
\* while the queue is full fails with the queue-full message naming
\* max_queue_size and leaves the queue as it was.
C5_QueueBound ==
    /\ [](/\ Len(processing_queue) <= max_queue_size
          /\ is_queue_full(processing_queue) <=> (Len(processing_queue) = max_queue_size)
          /\ get_queue_position(processing_queue) = Len(processing_queue))
    /\ [][(is_queue_full(processing_queue) /\ NumCalls' = NumCalls + 1) =>
             /\ ~last_call'.ok
             /\ last_call'.msg.kind = "queue_full"
             /\ last_call'.msg.limit = max_queue_size
             /\ processing_queue' = processing_queue
             /\ user_queue_count' = user_queue_count]_vars

\* A call has just been refused by a queue that holds max_queue_size jobs.
C5_Witness ==
    /\ last_call.msg.kind = "queue_full"
    /\ Len(processing_queue) = max_queue_size
    /\ is_queue_full(processing_queue)

\* C6: the queue's put keeps the queue of main.py within MAX_QUEUE_SIZE,
\* whatever the caller checked before it put.
C6_PutEnforcesBound == Len(main_queue) <= MAX_QUEUE_SIZE

\* C7: the counter map holds no entry that is 0 or negative, and
\* get_user_queue_count and can_user_submit_job leave the map as it was.
C7_NoZeroEntries ==
    /\ \A u \in DOMAIN user_queue_count : user_queue_count[u] > 0
    /\ last_op.op \in {"get_user_queue_count", "can_user_submit_job"} =>
           user_queue_count = last_op.before

\* C8: decrement_user_queue_count for a chat whose count is c > 0 returns
\* c - 1, leaves the count at c - 1, removes the chat's entry exactly when
\* c - 1 is 0, and changes no other chat's entry.
C8_DecrementByOne ==
    (last_op.op = "decrement_user_queue_count"
       /\ DictRead(last_op.before, last_op.chat_id) > 0) =>
        LET u == last_op.chat_id
            c == DictRead(last_op.before, u)
        IN  /\ last_op.ret = c - 1
            /\ CountOf(u) = c - 1
            /\ (u \in DOMAIN user_queue_count) <=> (c - 1 > 0)
            /\ \A v \in Users \ {u} :
                 /\ (v \in DOMAIN user_queue_count) <=> (v \in DOMAIN last_op.before)
                 /\ CountOf(v) = DictRead(last_op.before, v)

\* A decrement has just taken a chat from 1 to 0 and purged its entry.
C8_Witness ==
    /\ last_op.op = "decrement_user_queue_count"
    /\ DictRead(last_op.before, last_op.chat_id) = 1
    /\ last_op.chat_id \notin DOMAIN user_queue_count

\* C9: decrement_user_queue_count for a chat whose count is 0 returns 0 and
\* leaves no entry for the chat; for a chat with no entry it leaves the map as
\* it was, so that repeating it changes nothing.
C9_DecrementFloor ==
    /\ \A u \in Users :
          DictRead(user_queue_count, u) = 0 =>
              LET r == decrement_user_queue_count(user_queue_count, u) IN
              /\ r.ret = 0
              /\ u \notin DOMAIN r.map
              /\ (u \notin DOMAIN user_queue_count => r.map = user_queue_count)
              /\ decrement_user_queue_count(r.map, u) = r
    /\ (last_op.op = "decrement_user_queue_count"
          /\ DictRead(last_op.before, last_op.chat_id) = 0) =>
              /\ last_op.ret = 0
              /\ last_op.chat_id \notin DOMAIN user_queue_count
              /\ \A v \in Users \ {last_op.chat_id} :
                     CountOf(v) = DictRead(last_op.before, v)

\* A decrement has just been made for a chat that had no entry.
C9_Witness ==
    /\ last_op.op = "decrement_user_queue_count"
    /\ last_op.chat_id \notin DOMAIN last_op.before
    /\ last_op.ret = 0
    /\ user_queue_count = last_op.before

\* C10: a queue_audio_job call that fails leaves the queue, the counter map
\* and the workers as they were; one that succeeds appends exactly one job, the
\* submitter's, at the tail of the queue and raises the submitter's count, and
\* no other, by one.
C10_RejectionChangesNothing ==
    [][(stats' # stats /\ NumCalls' = NumCalls + 1) =>
          IF ~last_call'.ok
          THEN /\ processing_queue' = processing_queue
               /\ user_queue_count' = user_queue_count
               /\ worker' = worker
          ELSE \A u \in Users :
                 last_call'.chat_id = u =>
                   LET n == Len(processing_queue) IN
                   /\ Len(processing_queue') = n + 1
                   /\ SubSeq(processing_queue', 1, n) = processing_queue
                   /\ processing_queue'[n + 1].chat_id = u
                   /\ processing_queue'[n + 1].message_id = NumCalls'
                   /\ CountOf(u)' = CountOf(u) + 1
                   /\ \A v \in Users \ {u} : CountOf(v)' = CountOf(v)
      ]_vars

\* A call has just been refused because its chat is at the ceiling, after
\* another call was admitted behind a job still in the queue.
C10_Witness ==
    /\ ~last_call.ok
    /\ last_call.msg.kind = "user_limit"
    /\ Len(processing_queue) >= 1
    /\ NumCalls >= 3

\* C11: admission evaluates the capacity gate before the per-user gate.  A
\* call made while the queue holds max_queue_size jobs is refused with the
\* queue-full message naming max_queue_size, whatever the caller's count; the
\* per-user message, naming the ceiling and the caller's count, is returned
\* only by a call made while the queue is not full.
C11_CapacityGateFirst ==
    [][\A u \in Users :
         (Attempts(u)' = Attempts(u) + 1) =>
           /\ Len(processing_queue) >= max_queue_size =>
                last_call' = Call(u, FALSE, QueueFullMsg)
           /\ last_call'.msg.kind = "queue_full" =>
                /\ Len(processing_queue) >= max_queue_size
                /\ last_call'.msg.limit = max_queue_size
           /\ last_call'.msg.kind = "user_limit" =>
                /\ Len(processing_queue) < max_queue_size
                /\ last_call'.msg.limit = max_jobs_per_user_in_queue
                /\ last_call'.msg.current = CountOf(u)
                /\ CountOf(u) >= max_jobs_per_user_in_queue
      ]_vars

\* A call of a chat that is at its ceiling has met a full queue and was given
\* the queue-full message.
C11_Witness ==
    /\ last_call.msg.kind = "queue_full"
    /\ last_call.chat_id \in Users
    /\ CountOf(last_call.chat_id) >= max_jobs_per_user_in_queue
    /\ Len(processing_queue) = max_queue_size

\* C12: per-user limits are independent.  While the queue is not full a call
\* of chat v is admitted exactly when v's own count is below the ceiling,
\* whatever the other chats' counts are, and no call of v changes the count
\* of another chat (so an admission of v does not unblock a chat u that is
\* at the ceiling).
C12_IndependentLimits ==
    [][\A v \in Users :
         (Attempts(v)' = Attempts(v) + 1) =>
           /\ Len(processing_queue) < max_queue_size =>
                (last_call'.ok <=> CountOf(v) < max_jobs_per_user_in_queue)
           /\ \A u \in Users \ {v} :
                /\ CountOf(u)' = CountOf(u)
                /\ can_user_submit_job(user_queue_count', u).ret
                      = can_user_submit_job(user_queue_count, u).ret
      ]_vars

\* A chat has just been admitted while another chat is at the ceiling.
C12_Witness ==
    /\ last_call.ok
    /\ \E u \in Users \ {last_call.chat_id} :
          CountOf(u) = max_jobs_per_user_in_queue

\* ------------------------------------------------------------------------
\* main.py: queue discipline and worker loop
\* ------------------------------------------------------------------------

IsPrefix(a, b) == Len(a) <= Len(b) /\ SubSeq(b, 1, Len(a)) = a

\* Message ids of the jobs in main.py's queue, head first.
QueuedIds == [k \in 1..Len(main_queue) |-> main_queue[k].message_id]

\* Workers of main.py that hold a dequeued job (between get and the end of
\* the iteration).
Holding(id) == {w \in MainWorkers : main_worker[w].job.message_id = id}

\* Number of entries of the sequence a equal to x.
Occurrences(a, x) == Cardinality({k \in 1..Len(a) : a[k] = x})

\* C13: jobs leave the queue in the order they were put: the sequence of jobs
\* returned by the get calls so far is a prefix of the sequence of jobs put,
\* and the jobs still queued are the rest of it, in order.
C13_FifoOrder ==
    /\ IsPrefix(main_log.got, main_log.put)
    /\ main_log.put = main_log.got \o QueuedIds

\* Two jobs, put in the opposite order of their updates' arrival by
\* concurrent handlers, have both been got.
C13_Witness ==
    /\ Len(main_log.got) >= 2
    /\ main_log.got[1] > main_log.got[2]

\* C14: every job put is got at most once and by one worker: no job is
\* returned by two get calls, no two workers hold the same job, a job a
\* worker holds is no longer in the queue, and a job is held or cleaned up
\* only after a get returned it.
C14_DequeuedOnce ==
    /\ \A id \in Updates :
          /\ Occurrences(main_log.got, id) <= 1
          /\ Occurrences(main_log.put, id) <= 1
          /\ Cardinality(Holding(id)) <= 1
          /\ Holding(id) # {} =>
                /\ Occurrences(main_log.got, id) = 1
                /\ Occurrences(QueuedIds, id) = 0
          /\ Occurrences(QueuedIds, id) > 0 => Occurrences(main_log.got, id) = 0
    /\ \A w \in MainWorkers :
          main_worker[w].pc \notin {"start", "get", "exited"}
              <=> main_worker[w].job # NoMainJob

\* Both workers hold a job at the same time.
C14_Witness ==
    /\ Len(main_log.got) >= 2
    /\ \A w \in MainWorkers : main_worker[w].job # NoMainJob

\* pc values of a main.py worker that is inside an iteration of its loop.
InJob == {"first_edit", "get_file", "download_to_drive", "edit_analyzing",
          "edit_processing", "transcribe", "send_no_speech", "send_chunk",
          "send_error", "delete_message"}

\* pc values from which the pipeline of a job can end: the oversize edit, the
\* last delivery and the error notification.
PipelineEnds == {"first_edit", "send_no_speech", "send_chunk", "send_error"}

\* C16: for every dequeued job the worker calls delete_message exactly once,
\* after the job's pipeline has ended and whatever its outcome: a job that was
\* got and is no longer held has exactly one deletion, a job still held has
\* none; the deletion is entered only from a step that ends the pipeline,
\* every iteration ends through it, and whether it succeeds or raises the
\* worker goes back to get.
C16_DeleteOncePerJob ==
    /\ [](\A id \in Updates :
            /\ Occurrences(main_log.deleted, id) <= Occurrences(main_log.got, id)
            /\ Occurrences(main_log.got, id) = 1 =>
                  Occurrences(main_log.deleted, id)
                      = IF Holding(id) = {} THEN 1 ELSE 0)
    /\ [][\A w \in MainWorkers :
            main_worker'[w].pc # main_worker[w].pc =>
              /\ main_worker'[w].pc = "delete_message" =>
                    /\ main_worker[w].pc \in PipelineEnds
                    /\ main_worker'[w].job = main_worker[w].job
              /\ main_worker[w].pc = "delete_message" =>
                    /\ main_worker'[w].pc = "get"
                    /\ main_log'.deleted =
                          Append(main_log.deleted, main_worker[w].job.message_id)
              /\ (main_worker[w].pc \in InJob /\ main_worker'[w].pc \notin InJob) =>
                    main_worker[w].pc = "delete_message"
       ]_vars

\* Two jobs have been cleaned up and their workers are back at get.
C16_Witness ==
    /\ Len(main_log.deleted) >= 2
    /\ \A w \in MainWorkers : main_worker[w].pc = "get"

\* C17: worker startup fails closed.  A worker whose model could not be
\* loaded has returned: it holds no job, never calls get, stays out of the
\* model map, and its return leaves the other workers and the queue as they
\* were; every worker inside the loop has its model.  get_worker_model
\* returning None leaves the map without an entry for the name.
C17_StartupFailsClosed ==
    /\ [](\A w \in MainWorkers :
            /\ main_worker[w].pc = "exited" =>
                  /\ w \notin DOMAIN models
                  /\ main_worker[w].job = NoMainJob
                  /\ main_worker[w].model = 0
            /\ main_worker[w].pc \notin {"start", "exited"} =>
                  /\ w \in DOMAIN models
                  /\ main_worker[w].model # 0
            /\ \A whisper_present \in BOOLEAN, load_ok \in BOOLEAN :
                  LET r == get_worker_model(models, w, whisper_present, load_ok) IN
                  r.ret = 0 => (r.models = models /\ w \notin DOMAIN r.models))
    /\ [][\A w \in MainWorkers :
            /\ main_worker[w].pc = "exited" => main_worker'[w] = main_worker[w]
            /\ (main_worker[w].pc # "exited" /\ main_worker'[w].pc = "exited") =>
                  /\ main_worker[w].pc = "start"
                  /\ main_queue' = main_queue
                  /\ models' = models
                  /\ main_log' = main_log
                  /\ \A v \in MainWorkers \ {w} : main_worker'[v] = main_worker[v]
       ]_vars

\* One worker has returned at startup while another is processing a job.
C17_Witness ==
    \E w \in MainWorkers, v \in MainWorkers :
        /\ main_worker[w].pc = "exited"
        /\ main_worker[v].pc = "transcribe"

\* C18: model isolation.  Each worker name maps to a handle of its own, the
\* handle a worker transcribes with is the one kept under its name, an entry
\* of the model map never changes once made, a lookup of a name that has an
\* entry returns it and leaves the map as it was, and no two workers that are
\* in a transcribe call use the same handle.
C18_ModelIsolation ==
    /\ [](\A w \in MainWorkers :
            /\ w \in DOMAIN models =>
                  /\ models[w] # 0
                  /\ main_worker[w].model = models[w]
                  /\ \A v \in DOMAIN models \ {w} : models[v] # models[w]
                  /\ \A whisper_present \in BOOLEAN, load_ok \in BOOLEAN :
                        get_worker_model(models, w, whisper_present, load_ok)
                            = [ret |-> models[w], models |-> models]
            /\ w \notin DOMAIN models =>
                  LET r == get_worker_model(models, w, TRUE, TRUE) IN
                  /\ r.ret # 0
                  /\ \A v \in DOMAIN models : r.ret # models[v]
                  /\ get_worker_model(r.models, w, TRUE, TRUE) = r
            /\ \A v \in MainWorkers \ {w} :
                  (main_worker[w].pc = "transcribe"
                       /\ main_worker[v].pc = "transcribe") =>
                      main_worker[w].model # main_worker[v].model)
    /\ [][\A w \in DOMAIN models :
            w \in DOMAIN models' /\ models'[w] = models[w]]_vars

\* Both workers are in a transcribe call at the same time.
C18_Witness ==
    \A w \in MainWorkers :
        main_worker[w].pc = "transcribe" /\ w \in DOMAIN models

\* C15: a job's failure never ends its worker.  A failure in any phase of a
\* job takes the worker to the error notification and from there, whether
\* the notification is sent or fails, through the cleanup back to get; only a
\* worker that never loaded its model is ever out of the loop; and with a
\* worker in the loop every job put is got in the end, failures or not.
C15_WorkerSurvivesFailure ==
    /\ [](\A w \in MainWorkers :
            main_worker[w].pc = "exited" => w \notin DOMAIN models)
    /\ [][\A w \in MainWorkers :
            main_worker'[w].pc # main_worker[w].pc =>
              /\ main_worker[w].pc = "send_error" =>
                    main_worker'[w].pc = "delete_message"
              /\ main_worker'[w].pc = "send_error" =>
                    main_worker[w].pc \in InJob \ {"send_error", "delete_message"}
       ]_vars
    /\ \A w \in MainWorkers :
          (main_worker[w].pc = "send_error") ~> (main_worker[w].pc = "get")
    /\ \A k \in Updates :
          (Len(main_log.put) >= k /\ DOMAIN models # {}) ~> (Len(main_log.got) >= k)

\* A job has failed, after an earlier job of the same worker, while another
\* job is waiting in the queue.
C15_Witness ==
    /\ main_queue # <<>>
    /\ Len(main_log.deleted) >= 1
    /\ \E w \in MainWorkers : main_worker[w].pc = "send_error"

\* ------------------------------------------------------------------------
\* BotCore.process_audio_job: what it returns
\* ------------------------------------------------------------------------

\* pc values of a worker inside process_audio_job, the error notification
\* apart.
InPipeline == {"edit_too_large", "edit_downloading", "get_messages",
               "download_media", "edit_analyzing", "send_empty",
               "send_too_short", "edit_processing", "transcribe",
               "send_no_speech", "send_chunk"}

\* C19: process_audio_job never raises to its caller.  Every call ends by
\* returning True or False: True exactly when the empty-audio message, the
\* too-short message, the no-speech message or the last chunk of the
\* transcription has been sent, False after the oversize edit and after the
\* error notification, which is where a failure of any step (status edit,
\* fetch, decode, transcribe, delivery) leads.
C19_ReturnsBoolean ==
    /\ [](\A w \in Workers : worker[w].result \in {"none", "True", "False"})
    /\ [][\A w \in Workers :
            /\ (worker[w].pc # "idle" /\ worker'[w].pc = "idle") =>
                  /\ worker'[w].result \in {"True", "False"}
                  /\ worker'[w].result = "True" <=>
                        \/ worker[w].pc \in {"send_empty", "send_too_short",
                                             "send_no_speech"}
                        \/ /\ worker[w].pc = "send_chunk"
                           /\ worker[w].i + ChunkBody >= worker[w].len
                  /\ worker'[w].result = "False" <=>
                        worker[w].pc \in {"edit_too_large", "send_error"}
            /\ (worker[w].pc = "send_error" /\ worker'[w] # worker[w]) =>
                  worker'[w].pc = "idle"
            /\ (worker[w].pc # "send_error" /\ worker'[w].pc = "send_error") =>
                  worker[w].pc \in InPipeline
            /\ (worker[w].pc \in InPipeline /\ worker'[w] # worker[w]) =>
                  worker'[w].pc \in InPipeline \cup {"send_error", "idle"}
       ]_vars

\* One call has returned True and another, after a failure, False.
C19_Witness ==
    \E w \in Workers, v \in Workers :
        /\ worker[w].pc = "idle" /\ worker[w].result = "True"
        /\ worker[v].pc = "idle" /\ worker[v].result = "False" /\ worker[v].rel = 1

\* C20: classification by the decoded sample count n at 16000 samples per
\* second.  n = 0 leads to the empty-or-corrupted message, 0 < n < 1600 to
\* the too-short message, n >= 1600 to transcription; the two messages are
\* reached from the decode step only, and once sent the call returns True
\* with no further step, so transcribe is not called and no second message
\* is sent.
C20_DurationClasses ==
    /\ [](\A w \in Workers :
            /\ worker[w].pc = "send_empty" => worker[w].n = 0
            /\ worker[w].pc = "send_too_short" =>
                  (0 < worker[w].n /\ worker[w].n < 1600)
            /\ worker[w].pc \in {"edit_processing", "transcribe",
                                 "send_no_speech", "send_chunk"} =>
                  worker[w].n >= 1600)
    /\ [][\A w \in Workers :
            /\ (worker[w].pc \in {"send_empty", "send_too_short"}
                    /\ worker'[w] # worker[w]) =>
                  \/ worker'[w] = Returned("True", 0)
                  \/ worker'[w].pc = "send_error"
            /\ (worker'[w].pc \in {"send_empty", "send_too_short", "edit_processing"}
                    /\ worker'[w].pc # worker[w].pc) =>
                  worker[w].pc = "edit_analyzing"
            /\ (worker'[w].pc = "transcribe" /\ worker[w].pc # "transcribe") =>
                  worker[w].pc = "edit_processing"
       ]_vars

\* One job of 1599 samples is at the too-short message while a job of 1600
\* samples is being transcribed.
C20_Witness ==
    \E w \in Workers, v \in Workers :
        /\ worker[w].pc = "send_too_short" /\ worker[w].n = 1599
        /\ worker[v].pc = "transcribe" /\ worker[v].n = 1600

\* ------------------------------------------------------------------------
\* Delivery and error texts
\* ------------------------------------------------------------------------

\* What a delivered message carries after its header.
BodyOf(m) == SubSeq(m.body, Len(header) + 1, Len(m.body))

\* The bodies of the messages ms, joined in send order.
RECURSIVE JoinBodies(_)
JoinBodies(ms) ==
    IF ms = <<>> THEN <<>> ELSE BodyOf(Head(ms)) \o JoinBodies(Tail(ms))

\* C23: for a transcribed text that is not empty after trimming, every message
\* sent is the header followed by a chunk and is at most 4096 characters
\* long, and the chunks, joined in the order sent, are the text itself.
C23_ChunkingRoundTrip ==
    (applied.fn = "_send_transcription_result" /\ strip(applied.arg) # <<>>) =>
        /\ \A k \in 1..Len(applied.out) :
             /\ applied.out[k].fixed = ""
             /\ Len(applied.out[k].body) <= 4096
             /\ Len(applied.out[k].body) >= Len(header)
             /\ SubSeq(applied.out[k].body, 1, Len(header)) = header
        /\ JoinBodies(applied.out) = applied.arg

C23_Witness ==
    /\ applied.fn = "_send_transcription_result"
    /\ Len(applied.out) = 3
    /\ strip(applied.arg) # applied.arg
    /\ Len(applied.out[1].body) = 4096

\* C24 (as stated): a text of 9000 characters is delivered as 3 chunks of
\* 4079, 4079 and 842 characters, the header being 17 characters long.
C24_AsStated ==
    (applied.fn = "_send_transcription_result" /\ Len(applied.arg) = 9000
        /\ strip(applied.arg) # <<>>) =>
        /\ Len(header) = 17
        /\ Len(applied.out) = 3
        /\ Len(BodyOf(applied.out[1])) = 4079
        /\ Len(BodyOf(applied.out[2])) = 4079
        /\ Len(BodyOf(applied.out[3])) = 842

\* C24 (amended): a text of 9000 characters is delivered as 3 chunks of
\* 4080, 4080 and 840 characters, the header being 16 characters long and the
\* chunk size 4096 - 16 = 4080.
C24_NineThousand ==
    (applied.fn = "_send_transcription_result" /\ Len(applied.arg) = 9000
        /\ strip(applied.arg) # <<>>) =>
        /\ Len(header) = 16
        /\ TELEGRAM_MESSAGE_LIMIT - Len(header) = 4080
        /\ Len(applied.out) = 3
        /\ Len(BodyOf(applied.out[1])) = 4080
        /\ Len(BodyOf(applied.out[2])) = 4080
        /\ Len(BodyOf(applied.out[3])) = 840

C24_Witness ==
    /\ applied.fn = "_send_transcription_result"
    /\ Len(applied.arg) = 9000
    /\ strip(applied.arg) = applied.arg
    /\ Len(applied.out) = 3

\* Case-insensitive substring match, letter by letter.
Mentions(e, word) ==
    LET SameLetter(a, b) ==
            a = b \/ \E c \in 1..26 : {a, b} = {UpperCase[c], LowerCase[c]}
    IN  \E k \in 0..(Len(e) - Len(word)) :
            \A j \in 1..Len(word) : SameLetter(word[j], e[k + j])

\* The class of an error text, first match first.
ErrorClass(e) ==
    IF Mentions(e, Phrase.download) \/ Mentions(e, Phrase.file) THEN "download"
    ELSE IF Mentions(e, Phrase.cannot_reshape_tensor) \/ Mentions(e, Phrase.tensor_of_0_elements)
         THEN "tensor"
    ELSE IF Mentions(e, Phrase.transcribe) \/ Mentions(e, Phrase.whisper) THEN "transcribe"
    ELSE "other"

\* C26: the error message is decided by the class of the error text, matched
\* without regard to case and first match first: download or file, then the
\* two tensor phrases, then transcribe or whisper, then the generic message;
\* whisper's reshape error gets the cannot-be-processed message.
C26_ErrorClassification ==
    applied.fn = "_send_error_message" =>
        /\ Len(applied.out) = 1
        /\ ErrorClass(applied.arg) = "download" => applied.out[1] = ErrorMsg.download_failed
        /\ ErrorClass(applied.arg) = "tensor" => applied.out[1] = ErrorMsg.cannot_be_processed
        /\ ErrorClass(applied.arg) = "transcribe" => applied.out[1] = ErrorMsg.transcribe_failed
        /\ ErrorClass(applied.arg) = "other" => applied.out[1] = ErrorMsg.generic
        /\ applied.arg = Phrase.TensorReshapeError => applied.out[1] = ErrorMsg.cannot_be_processed

C26_Witness ==
    /\ applied.fn = "_send_error_message"
    /\ applied.arg = Phrase.TensorReshapeError
    /\ applied.out = << ErrorMsg.cannot_be_processed >>

\* The class main.py's worker gives an error text.
MainErrorClass(e) ==
    IF Mentions(e, Phrase.download) \/ Mentions(e, Phrase.file) THEN "download"
    ELSE IF Mentions(e, Phrase.transcribe) \/ Mentions(e, Phrase.whisper) THEN "transcribe"
    ELSE "other"

\* C28: the text sent on a failure is one of a fixed set of texts with no
\* part computed from the error, and two error texts of the same class get
\* the same message, whatever else they contain.
C28_NoCauseLeak ==
    /\ applied.fn = "_send_error_message" =>
         /\ applied.out[1] \in {ErrorMsg.download_failed, ErrorMsg.cannot_be_processed,
                                ErrorMsg.transcribe_failed, ErrorMsg.generic}
         /\ applied.out[1].body = <<>>
         /\ \A e2 \in ErrorTexts :
              ErrorClass(e2) = ErrorClass(applied.arg)
                  => send_error_message(e2) = applied.out[1]
    /\ applied.fn = "worker" =>
         /\ applied.out[1] \in {ErrorMsg.download_failed, MainTranscribeFailedMsg,
                                ErrorMsg.generic}
         /\ applied.out[1].body = <<>>
         /\ \A e2 \in ErrorTexts :
              MainErrorClass(e2) = MainErrorClass(applied.arg)
                  => main_error_msg(e2) = applied.out[1]

C28_Witness ==
    /\ applied.fn = "_send_error_message"
    /\ applied.arg = Phrase.timed_out
    /\ applied.out = << ErrorMsg.generic >>
    /\ \E e2 \in ErrorTexts :
         e2 # applied.arg /\ send_error_message(e2) = applied.out[1]

\* ------------------------------------------------------------------------
\* The calls of one process_audio_job
\* ------------------------------------------------------------------------

HasReturned(r) == r.pc = "idle" /\ r.result # "none"

\* The calls of the pipeline phases, in the order of the code.
PhaseCalls ==
    << [op |-> "edit_message", text |-> StatusText.downloading],
       [op |-> "get_messages", text |-> NoText],
       [op |-> "download_media", text |-> NoText],
       [op |-> "edit_message", text |-> StatusText.analyzing],
       [op |-> "load_audio", text |-> NoText],
       [op |-> "edit_message", text |-> StatusText.processing],
       [op |-> "transcribe", text |-> NoText] >>

PhaseOf(call) == [op |-> call.op, text |-> call.text]

\* The phase whose call a suspended pipeline is waiting for.
PendingPhase ==
    [edit_downloading |-> 1, get_messages |-> 2, download_media |-> 3,
     edit_analyzing |-> 4, edit_processing |-> 6, transcribe |-> 7]

ErrorTemplates ==
    {ErrorMsg.download_failed, ErrorMsg.cannot_be_processed, ErrorMsg.transcribe_failed, ErrorMsg.generic}

\* A message that carries a transcription: the header and a chunk.
IsDelivery(call) == call.op = "send_message" /\ call.text.body # <<>>

\* C21: a job over max_file_size never gets a fetch, decode or transcribe
\* call; its first call is the edit of the status message to the size-limit
\* text, and when that edit returns it is the only call and the job has
\* returned False.  A message is sent only when the edit itself raised: the
\* one error message of the failure path.
C21_OversizeRecheck ==
    \A w \in Workers :
        LET r == run[w]
            c == run[w].calls
        IN  r.job.file_size > max_file_size =>
              /\ \A i \in 1..Len(c) :
                   c[i].op \notin {"get_messages", "download_media", "load_audio",
                                   "transcribe"}
              /\ r.pc \in {"edit_too_large", "send_error", "idle"}
              /\ r.pc = "edit_too_large" <=> c = <<>>
              /\ c # <<>> => c[1] = Made("edit_message", r.job, StatusText.too_large, c[1].ok)
              /\ (c # <<>> /\ c[1].ok) =>
                   /\ Len(c) = 1
                   /\ HasReturned(r) /\ r.result = "False"
              /\ Len(c) >= 2 =>
                   /\ Len(c) = 2 /\ ~c[1].ok
                   /\ c[2].op = "send_message" /\ c[2].text \in ErrorTemplates
              /\ HasReturned(r) => r.result = "False"

C21_Witness ==
    \E w \in Workers :
        /\ run[w].job.file_size > max_file_size
        /\ HasReturned(run[w])
        /\ run[w].calls = << Made("edit_message", run[w].job, StatusText.too_large, TRUE) >>

\* C22: the calls of a job within the size limit are the phases in the order
\* of the code, each at its own place (status Downloading, fetch of the
\* message, download, status Analyzing, decode, status Processing,
\* transcribe), none twice, each after all earlier ones have returned; the
\* transcription is delivered only after transcribe has returned.
C22_PhaseOrder ==
    \A w \in Workers :
        LET r == run[w]
            c == run[w].calls
        IN  (r.job # NoJob /\ r.job.file_size <= max_file_size) =>
              /\ \A i \in 1..Len(c) :
                   /\ (\E p \in 1..7 : PhaseOf(c[i]) = PhaseCalls[p]) =>
                        /\ i <= 7
                        /\ PhaseOf(c[i]) = PhaseCalls[i]
                        /\ \A j \in 1..(i - 1) : c[j].ok
                   /\ IsDelivery(c[i]) =>
                        /\ i > 7
                        /\ \A j \in 1..(i - 1) : c[j].ok
              /\ r.pc \in DOMAIN PendingPhase =>
                   /\ Len(c) = PendingPhase[r.pc] - 1
                   /\ \A j \in 1..Len(c) : c[j].ok
              /\ (r.pc = "transcribe" \/ \E i \in 1..Len(c) : c[i].op = "transcribe") =>
                   /\ Len(c) >= 6
                   /\ c[1] = Made("edit_message", r.job, StatusText.downloading, TRUE)
                   /\ c[4] = Made("edit_message", r.job, StatusText.analyzing, TRUE)
                   /\ c[6] = Made("edit_message", r.job, StatusText.processing, TRUE)

C22_Witness ==
    \E w \in Workers :
        /\ HasReturned(run[w]) /\ run[w].result = "True"
        /\ Len(run[w].calls) = 9
        /\ \A i \in 1..7 : PhaseOf(run[w].calls[i]) = PhaseCalls[i]
        /\ IsDelivery(run[w].calls[8]) /\ IsDelivery(run[w].calls[9])

\* C25: when transcribe has returned a text that is empty after trimming,
\* the one message of the delivery is the no-detectable-speech message, sent
\* as a reply to the source message; no message with the header is sent, and
\* when the message has gone out the job has returned True.
C25_NoSpeech ==
    \A w \in Workers :
        LET r == run[w]
            c == run[w].calls
        IN  (Len(c) >= 7 /\ c[7].op = "transcribe" /\ c[7].ok
                /\ strip(r.transcription) = <<>>) =>
              /\ \A i \in 1..Len(c) : ~IsDelivery(c[i])
              /\ Len(c) = 7 <=> r.pc = "send_result"
              /\ Len(c) >= 8 =>
                   c[8] = [op |-> "send_message", chat_id |-> r.job.chat_id,
                           reply_to |-> r.job.message_id, text |-> StatusText.no_speech,
                           ok |-> c[8].ok]
              /\ (Len(c) >= 8 /\ c[8].ok) =>
                   /\ Len(c) = 8
                   /\ HasReturned(r) /\ r.result = "True" /\ r.rel = 1
                   /\ Cardinality({i \in 1..Len(c) : c[i].op = "send_message"}) = 1

C25_Witness ==
    \E w \in Workers :
        /\ HasReturned(run[w]) /\ run[w].result = "True"
        /\ run[w].transcription = <<" ", "\n">>
        /\ Len(run[w].calls) = 8
        /\ run[w].calls[8].text = StatusText.no_speech

\* The failure messages the submitter is left with: the error messages that
\* were sent and the status message edited to the size-limit text.
FailureMessages(c) ==
    {i \in 1..Len(c) :
        /\ c[i].ok
        /\ \/ c[i].op = "send_message" /\ c[i].text \in ErrorTemplates
           \/ c[i].op = "edit_message" /\ c[i].text = StatusText.too_large}

\* The attempts to tell the submitter about the failure.
FailureAttempts(c) ==
    {i \in 1..Len(c) :
        \/ c[i].op = "send_message" /\ c[i].text \in ErrorTemplates
        \/ c[i].op = "edit_message" /\ c[i].text = StatusText.too_large /\ c[i].ok}

\* C27 (as stated): a job that has terminated as failed has left the
\* submitter exactly one failure message.
C27_AsStated ==
    \A w \in Workers :
        (HasReturned(run[w]) /\ run[w].result = "False") =>
            Cardinality(FailureMessages(run[w].calls)) = 1

\* C27 (amended): a job that has terminated as failed has made exactly one
\* attempt to tell the submitter, as its last call: the size-limit edit, or
\* one error message after a call has raised.  The submitter is left with
\* one failure message when that call returned and with none when the error
\* message could not be sent; never with two.
C27_OneFailureReport ==
    \A w \in Workers :
        LET r == run[w]
            c == run[w].calls
        IN  (HasReturned(r) /\ r.result = "False") =>
              /\ c # <<>>
              /\ FailureAttempts(c) = {Len(c)}
              /\ c[Len(c)].ok => Cardinality(FailureMessages(c)) = 1
              /\ ~c[Len(c)].ok => FailureMessages(c) = {}
              /\ c[Len(c)].op = "send_message" =>
                   /\ Len(c) >= 2 /\ ~c[Len(c) - 1].ok
                   /\ c[Len(c)].reply_to = r.job.message_id
                   /\ c[Len(c)].chat_id = r.job.chat_id

C27_Witness ==
    \E w \in Workers :
        /\ HasReturned(run[w]) /\ run[w].result = "False"
        /\ Len(run[w].calls) = 10
        /\ IsDelivery(run[w].calls[8]) /\ run[w].calls[8].ok
        /\ IsDelivery(run[w].calls[9]) /\ ~run[w].calls[9].ok
        /\ run[w].calls[10].ok
        /\ Cardinality(FailureMessages(run[w].calls)) = 1

\* C29: when the awaited error message ends, whether it was sent or raised,
\* process_audio_job returns False, the slot of the job's chat is released
\* (its count goes down by one, to no entry at one), and the worker is back
\* where it takes the next job.
C29_BestEffortReport ==
    /\ [](\A w \in Workers :
            (run[w].pc = "idle" /\ processing_queue # <<>>) => ENABLED JobGet(w))
    /\ [][\A w \in Workers :
             (run[w].pc = "send_error" /\ run'[w] # run[w]) =>
                 /\ run'[w].pc = "idle"
                 /\ run'[w].result = "False"
                 /\ run'[w].rel = 1
                 /\ Len(run'[w].calls) = Len(run[w].calls) + 1
                 /\ run'[w].calls[Len(run'[w].calls)].text = run[w].error_msg
                 /\ DictRead(user_queue_count, run[w].job.chat_id) >= 1
                 /\ DictRead(user_queue_count', run[w].job.chat_id) =
                        DictRead(user_queue_count, run[w].job.chat_id) - 1
                 /\ stats'[run[w].job.chat_id].released =
                        stats[run[w].job.chat_id].released + 1
         ]_vars

\* A worker whose error message could not be sent has returned False, the
\* slot of its job's chat is free again, and the other worker is on the job
\* that was queued behind.
C29_Witness ==
    \E w \in Workers, v \in Workers :
        /\ w # v
        /\ HasReturned(run[v]) /\ run[v].result = "False"
        /\ ~run[v].calls[Len(run[v].calls)].ok
        /\ run[v].job.chat_id \notin DOMAIN user_queue_count
        /\ processing_queue = <<>>
        /\ run[w].pc \notin {"idle"}

\* The pipeline is inside its with block.
InWithBlock(r) ==
    r.pc \in {"download_media", "edit_analyzing", "send_empty", "send_too_short",
              "edit_processing", "transcribe"}

\* C30: the temporary directory of a job exists only while the job is inside
\* its with block: it is gone when process_audio_job has returned, whatever
\* the outcome, and while the error message or the transcription is sent.
\* Every directory that exists belongs to a job inside its with block, and no
\* two jobs have the same directory.
C30_ScratchScope ==
    /\ \A w \in Workers :
         /\ InWithBlock(run[w]) =>
              (run[w].temp_dir # 0 /\ run[w].temp_dir \in scratch.live)
         /\ ~InWithBlock(run[w]) => run[w].temp_dir \notin scratch.live
         /\ HasReturned(run[w]) => run[w].temp_dir \notin scratch.live
    /\ \A d \in scratch.live :
         \E w \in Workers : InWithBlock(run[w]) /\ run[w].temp_dir = d
    /\ \A w \in Workers, v \in Workers :
         (w # v /\ run[w].temp_dir # 0) => run[w].temp_dir # run[v].temp_dir

\* Two jobs are inside their with blocks at once, each with its own
\* directory, after an earlier job has failed in the block and returned.
C30_Witness ==
    \E w \in Workers, v \in Workers :
        /\ w # v
        /\ InWithBlock(run[w]) /\ InWithBlock(run[v])
        /\ scratch.live = {run[w].temp_dir, run[v].temp_dir}
        /\ Cardinality(scratch.live) = 2

\* ------------------------------------------------------------------------
\* Scheduling, capacity and admission
\* ------------------------------------------------------------------------

\* C31: the transcribe call is a suspension of its own: a call whose
\* "Processing" edit returned waits for the transcription, and while a worker
\* waits there every producer can make its queue_audio_job call, every other
\* worker that is idle can take a queued job, and every other worker inside a
\* job can take its next step, a worker about to transcribe included.
C31_TranscribeDoesNotStall ==
    /\ [](\A w \in Workers :
            worker[w].pc = "transcribe" =>
                /\ NumCalls < MaxCalls =>
                       \A chat_id \in Users, file_size \in FileSizes :
                           ENABLED QueueAudioJob(chat_id, file_size)
                /\ \A v \in Workers \ {w} :
                       /\ (worker[v].pc = "idle" /\ processing_queue # <<>>) =>
                              ENABLED Get(v)
                       /\ worker[v].pc # "idle" => ENABLED Pipeline(v)
                       /\ worker[v].pc = "edit_processing" =>
                              ENABLED (EditProcessing(v) /\ worker'[v].pc = "transcribe"))
    /\ [][\A w \in Workers :
            (worker[w].pc = "edit_processing" /\ worker'[w].pc # "edit_processing")
                => worker'[w].pc \in {"transcribe", "send_error"}]_vars

\* Both workers wait for their transcriptions, and a further job has been
\* admitted and is in the queue.
C31_Witness ==
    /\ \A w \in Workers : worker[w].pc = "transcribe"
    /\ processing_queue # <<>>
    /\ last_call.ok

\* C32: after the rejected call at a full queue, once the worker has taken a
\* job and process_audio_job has returned for every job taken, the next
\* queue_audio_job call, by a chat below its ceiling, succeeds and its job is
\* the newest in the queue.
C32_CapacityRecovery ==
    [][\A u \in Users :
          ( /\ NumCalls = 1
            /\ last_call = Call(1, FALSE, QueueFullMsg)
            /\ worker[1].pc = "idle" /\ worker[1].result \in {"True", "False"}
            /\ CountOf(u) < max_jobs_per_user_in_queue
            /\ stats'[u].ok + stats'[u].user_limit + stats'[u].queue_full
                   = Attempts(u) + 1 )
          => /\ last_call' = Call(u, TRUE, NoMsg)
             /\ Len(processing_queue') = Len(processing_queue) + 1
             /\ processing_queue'[Len(processing_queue')].chat_id = u
             /\ processing_queue'[Len(processing_queue')].message_id = 2]_vars

\* One job was taken and processed to the end, and the call after the rejected
\* one was admitted: the queue is at capacity again.
C32_Witness ==
    /\ NumCalls = 2
    /\ last_call.ok
    /\ worker[1].pc = "idle" /\ worker[1].result = "True"
    /\ worker[2].result = "none"
    /\ Len(processing_queue) = max_queue_size
    /\ processing_queue[Len(processing_queue)].message_id = 2

\* Chat u was at its ceiling when the queue was full, one of its jobs has been
\* completed by complete_job since, and u has made no call since.
SlotReleased(u) ==
    /\ stats[u].released = 1
    /\ stats[u].ok = 0 /\ stats[u].user_limit = 0
    /\ stats[u].queue_full = (IF u = 1 THEN 1 ELSE 0)
    /\ CountOf(u) = max_jobs_per_user_in_queue - 1

\* After that, u has been admitted once more and is at its ceiling again.
SlotRetaken(u) ==
    /\ stats[u].released = 1
    /\ stats[u].ok = 1 /\ stats[u].user_limit = 0
    /\ stats[u].queue_full = (IF u = 1 THEN 1 ELSE 0)
    /\ CountOf(u) = max_jobs_per_user_in_queue

\* C33 as stated: after complete_job released a slot of a chat at its
\* ceiling, the chat's next queue_audio_job call succeeds and brings its count
\* back to the ceiling, and its call after that is rejected.
C33_AsStated ==
    [][\A u \in Users :
          (stats'[u].ok + stats'[u].user_limit + stats'[u].queue_full = Attempts(u) + 1)
          => /\ SlotReleased(u) =>
                    /\ last_call' = Call(u, TRUE, NoMsg)
                    /\ DictRead(user_queue_count', u) = max_jobs_per_user_in_queue
             /\ SlotRetaken(u) =>
                    /\ ~last_call'.ok
                    /\ DictRead(user_queue_count', u) = max_jobs_per_user_in_queue]_vars

\* C33: after complete_job released a slot of a chat at its ceiling, the
\* chat's next queue_audio_job call succeeds exactly when the queue is not full
\* at that moment, and then brings its count back to the ceiling (a call
\* rejected at a full queue leaves the count as it is); with the count back at
\* the ceiling the chat's call after that is rejected.
C33_ReleaseReenables ==
    [][\A u \in Users :
          (stats'[u].ok + stats'[u].user_limit + stats'[u].queue_full = Attempts(u) + 1)
          => /\ SlotReleased(u) =>
                    IF Len(processing_queue) < max_queue_size
                    THEN /\ last_call' = Call(u, TRUE, NoMsg)
                         /\ DictRead(user_queue_count', u) = max_jobs_per_user_in_queue
                    ELSE /\ last_call' = Call(u, FALSE, QueueFullMsg)
                         /\ DictRead(user_queue_count', u) = max_jobs_per_user_in_queue - 1
             /\ SlotRetaken(u) =>
                    /\ ~last_call'.ok
                    /\ DictRead(user_queue_count', u) = max_jobs_per_user_in_queue]_vars

\* A chat whose slot was released has been admitted again, is at its ceiling
\* and has just been rejected by the per-user gate.
C33_Witness ==
    \E u \in Users :
        /\ stats[u].released = 1 /\ stats[u].ok = 1 /\ stats[u].user_limit = 1
        /\ CountOf(u) = max_jobs_per_user_in_queue
        /\ last_call = Call(u, FALSE, UserLimitMsg(max_jobs_per_user_in_queue))

\* ------------------------------------------------------------------------
\* Validation and the job record
\* ------------------------------------------------------------------------

\* C34: validate_audio_file rejects a file exactly when its size is above
\* max_file_size (a file of exactly the limit is accepted), whatever its MIME
\* type, and the message of a rejection states the limit the BotCore was
\* configured with.
C34_ValidateStatesLimit ==
    applied.fn = "validate_audio_file" =>
        LET audio == applied.arg.audio
            limit == applied.arg.max_file_size
        IN  /\ (applied.out # <<>>) <=> (audio.file_size > limit)
            /\ \A m \in MimeTypes :
                   validate_audio_file([audio EXCEPT !.mime_type = m], limit) = applied.out
            /\ applied.out # <<>> =>
                   applied.out[1] =
                       IF limit = 2 * 1024 * 1024
                       THEN Text("File is too large. The limit is 2 GB.")
                       ELSE Text("File is too large. The limit is 20 MB.")

\* C35: the job queue_audio_job puts carries the display name submitted when
\* there is one; without one, "voice_message.ogg" for the MIME type
\* "audio/ogg", and for any other type "audio_file_", the unique id, "." and
\* the part of the MIME type after the "/"; its other fields are the values
\* submitted.
C35_JobFields ==
    (applied.fn = "queue_audio_job" /\ applied.out # <<>>) =>
        LET audio == applied.arg.audio
            job == applied.out[1]
            slashes == {k \in 1..Len(audio.mime_type) : audio.mime_type[k] = "/"}
            subtype == SubSeq(audio.mime_type,
                              (CHOOSE k \in slashes \cup {0} : k > 0 \/ slashes = {}) + 1,
                              Len(audio.mime_type))
        IN  /\ Len(applied.out) = 1
            /\ audio.file_name = <<>> => slashes # {}
            /\ job.file_name =
                   IF audio.file_name # <<>> THEN audio.file_name
                   ELSE IF audio.mime_type = <<"a", "u", "d", "i", "o", "/", "o", "g", "g">>
                   THEN <<"v", "o", "i", "c", "e", "_", "m", "e", "s", "s", "a", "g",
                          "e", ".", "o", "g", "g">>
                   ELSE <<"a", "u", "d", "i", "o", "_", "f", "i", "l", "e", "_">>
                            \o audio.file_unique_id \o <<".">> \o subtype
            /\ job.chat_id = applied.arg.chat_id
            /\ job.message_id = applied.arg.message_id
            /\ job.file_id = audio.file_id
            /\ job.mime_type = audio.mime_type
            /\ job.file_size = audio.file_size
            /\ job.processing_msg_id = applied.arg.processing_msg_id

\* A file of type audio/mpeg submitted without a display name was queued as
\* audio_file_u1.mpeg.
C35_Witness ==
    /\ applied.fn = "queue_audio_job"
    /\ applied.arg.audio.file_name = <<>>
    /\ applied.arg.audio.mime_type = <<"a", "u", "d", "i", "o", "/", "m", "p", "e", "g">>
    /\ Len(applied.out) = 1
    /\ applied.out[1].file_name =
           <<"a", "u", "d", "i", "o", "_", "f", "i", "l", "e", "_", "u", "1", ".",
             "m", "p", "e", "g">>

\* ------------------------------------------------------------------------
\* main.py: the handler and the queue
\* ------------------------------------------------------------------------

\* C36: main.py's queue never holds more than MAX_QUEUE_SIZE jobs, and a
\* handle_audio invocation whose "queued" reply ends while the queue is at
\* capacity does not put its job.
C36_HandlerKeepsBound ==
    /\ [](Len(main_queue) <= MAX_QUEUE_SIZE)
    /\ [][\A h \in Updates :
            ( /\ handler[h].pc = "reply_queued"
              /\ handler'[h].pc # "reply_queued"
              /\ Len(main_queue) >= MAX_QUEUE_SIZE )
            => main_queue' = main_queue]_vars

\* C37: with a worker that has its model, and every call it awaits returning
\* or raising in the end, every job put into the queue is taken from it and
\* its iteration of the worker loop runs to its end (the result delivered or
\* the failure handled, and the cleanup done).
C37_EveryJobTerminates ==
    \A h \in Updates :
        ((\E k \in 1..Len(main_log.put) : main_log.put[k] = h) /\ DOMAIN models # {})
            ~> ( /\ \E k \in 1..Len(main_log.got) : main_log.got[k] = h
                 /\ \E k \in 1..Len(main_log.deleted) : main_log.deleted[k] = h
                 /\ \A w \in MainWorkers : main_worker[w].job.message_id # h )

\* Two jobs were put and both have run to their end; the queue is empty and
\* the worker waits for the next job.
C37_Witness ==
    /\ Len(main_log.put) = 2
    /\ Len(main_log.deleted) = 2
    /\ main_queue = <<>>
    /\ main_worker[1].pc = "get"


\* C38: in main.py the jobs outstanding (those in the queue plus those a
\* worker has taken and whose iteration has not ended) are never more than
\* MAX_QUEUE_SIZE plus the number of worker tasks that have not returned, and
\* the jobs a worker holds are never more than the workers that have a model.
C38_OutstandingBound ==
    LET in_flight == {w \in MainWorkers : main_worker[w].job # NoMainJob}
        running == {w \in MainWorkers : main_worker[w].pc # "exited"}
    IN  /\ Len(main_queue) + Cardinality(in_flight)
              <= MAX_QUEUE_SIZE + Cardinality(running)
        /\ Cardinality(in_flight) <= Cardinality(DOMAIN models)


\* ------------------------------------------------------------------------
\* The size re-check and the delivery, as observed on the calls of a job
\* ------------------------------------------------------------------------

\* C39: a job over max_file_size, which queue_audio_job admits without
\* calling validate_audio_file, never reaches the fetch: it is never waiting
\* on the Downloading edit or on any later call and none of its calls is a
\* fetch; a job whose file validate_audio_file accepts (with the same
\* max_file_size) never takes the size-limit branch: it is never waiting on
\* the size-limit edit and the size-limit text is never put on its status.
C39_RecheckAgreesWithValidate ==
    \A w \in Workers :
        LET r == run[w]
            c == run[w].calls
            audio == AudioMessage(<<>>, r.job.file_size, <<>>, <<>>, <<>>)
        IN  /\ r.job.file_size > max_file_size =>
                 /\ validate_audio_file(audio, max_file_size) # <<>>
                 /\ r.pc \in {"edit_too_large", "send_error", "idle"}
                 /\ \A i \in 1..Len(c) :
                      /\ c[i].op \notin {"get_messages", "download_media"}
                      /\ c[i].text # StatusText.downloading
            /\ (r.job # NoJob /\ validate_audio_file(audio, max_file_size) = <<>>) =>
                 /\ r.job.file_size <= max_file_size
                 /\ r.pc # "edit_too_large"
                 /\ \A i \in 1..Len(c) : c[i].text # StatusText.too_large
                 /\ c # <<>> => c[1] = Made("edit_message", r.job, StatusText.downloading,
                                            c[1].ok)

\* Of two admitted jobs, the one over the limit has been turned away at the
\* re-check and the one of exactly max_file_size has been fetched.
C39_Witness ==
    \E w \in Workers, v \in Workers :
        /\ run[w].job.file_size > max_file_size
        /\ HasReturned(run[w])
        /\ Len(run[w].calls) = 1
        /\ run[v].job.file_size = max_file_size
        /\ \E i \in 1..Len(run[v].calls) :
             run[v].calls[i].op = "download_media" /\ run[v].calls[i].ok


\* C40, as stated: when process_audio_job has returned False no chunk of the
\* job's transcription has been sent, and when it has returned True after a
\* transcription every chunk has been sent.
C40_AsStated ==
    \A w \in Workers :
        LET r == run[w]
            c == run[w].calls
            sent == SelectSeq(c, LAMBDA call : IsDelivery(call) /\ call.ok)
            chunks == SelectSeq(send_transcription_result(r.transcription),
                                LAMBDA m : m.body # <<>>)
        IN  /\ (HasReturned(r) /\ r.result = "False") => sent = <<>>
            /\ (HasReturned(r) /\ r.result = "True"
                  /\ \E i \in 1..Len(c) : c[i].op = "transcribe") =>
                   [k \in 1..Len(sent) |-> sent[k].text] = chunks

\* C40 (amended): the chunks sent are at all times the first chunks of the
\* transcription, in order, each once.  When process_audio_job has returned
\* False they are not all of them: none when the job failed before the
\* delivery, and otherwise the chunks before the one whose send raised, which
\* the error message follows directly.  When it has returned True after a
\* transcription every chunk has been sent.
C40_DeliveredPrefix ==
    \A w \in Workers :
        LET r == run[w]
            c == run[w].calls
            sent == SelectSeq(c, LAMBDA call : IsDelivery(call) /\ call.ok)
            texts == [k \in 1..Len(sent) |-> sent[k].text]
            chunks == SelectSeq(send_transcription_result(r.transcription),
                                LAMBDA m : m.body # <<>>)
        IN  /\ IsPrefix(texts, chunks)
            /\ \A k \in 1..Len(sent) :
                 sent[k].chat_id = r.job.chat_id /\ sent[k].reply_to = r.job.message_id
            /\ (HasReturned(r) /\ r.result = "False") =>
                 /\ texts # chunks \/ chunks = <<>>
                 /\ sent # <<>> =>
                      /\ Len(c) >= 3
                      /\ c[Len(c) - 2] = sent[Len(sent)]
                      /\ IsDelivery(c[Len(c) - 1]) /\ ~c[Len(c) - 1].ok
                      /\ c[Len(c)].text \in ErrorTemplates
            /\ (HasReturned(r) /\ r.result = "True"
                  /\ \E i \in 1..Len(c) : c[i].op = "transcribe") =>
                 texts = chunks

\* A job of two chunks has returned False with its first chunk sent and its
\* second not; another has returned True with both sent.
C40_Witness ==
    \E w \in Workers, v \in Workers :
        /\ HasReturned(run[w]) /\ run[w].result = "False"
        /\ Len(send_transcription_result(run[w].transcription)) = 2
        /\ Len(SelectSeq(run[w].calls, LAMBDA call : IsDelivery(call) /\ call.ok)) = 1
        /\ HasReturned(run[v]) /\ run[v].result = "True"
        /\ Len(SelectSeq(run[v].calls, LAMBDA call : IsDelivery(call) /\ call.ok)) = 2

====
